---- MODULE Spec2Model ----
(***************************************************************************)
(* Verification model of bytebury/toolkit: the Duration value type         *)
(* (src/src/duration.ts), its unit shorthands and its sleep operation.     *)
(*                                                                         *)
(* A TypeScript `number` is an IEEE-754 binary64 value.  The unit          *)
(* conversions are products and quotients of such values, so the model     *)
(* computes them as the code does: every `*` and `/` is one correctly      *)
(* rounded (round-to-nearest, ties-to-even) binary64 operation.  The       *)
(* 53-bit significands do not fit the model checker's integers, so         *)
(* significands are little-endian sequences of 15-bit limbs.               *)
(***************************************************************************)
EXTENDS Integers, Sequences, FiniteSets, TLC

(***************************************************************************)
(* Natural numbers of arbitrary size: <<>> is 0, limb 1 is the lowest.     *)
(***************************************************************************)
LimbBits == 15

Base == 2 ^ LimbBits

RECURSIVE Pow2(_)
Pow2(k) == IF k = 0 THEN 1 ELSE 2 * Pow2(k - 1)

Limb(a, i) == IF i <= Len(a) THEN a[i] ELSE 0

RECURSIVE BigNorm(_)
BigNorm(a) ==
  IF a = <<>> THEN <<>>
  ELSE IF a[Len(a)] = 0 THEN BigNorm(SubSeq(a, 1, Len(a) - 1))
  ELSE a

RECURSIVE BigFromInt(_)
BigFromInt(n) == IF n = 0 THEN <<>> ELSE <<n % Base>> \o BigFromInt(n \div Base)

BigOne == <<1>>

RECURSIVE BigAddRec(_, _, _, _)
BigAddRec(a, b, i, carry) ==
  IF i > Len(a) /\ i > Len(b)
  THEN IF carry = 0 THEN <<>> ELSE <<carry>>
  ELSE LET s == Limb(a, i) + Limb(b, i) + carry
       IN  <<s % Base>> \o BigAddRec(a, b, i + 1, s \div Base)

BigAdd(a, b) == BigAddRec(a, b, 1, 0)

\* a - b for a >= b
RECURSIVE BigSubRec(_, _, _, _)
BigSubRec(a, b, i, borrow) ==
  IF i > Len(a) THEN <<>>
  ELSE LET s == Limb(a, i) - Limb(b, i) - borrow
       IN  IF s < 0 THEN <<s + Base>> \o BigSubRec(a, b, i + 1, 1)
           ELSE <<s>> \o BigSubRec(a, b, i + 1, 0)

BigSub(a, b) == BigNorm(BigSubRec(a, b, 1, 0))

\* -1, 0, 1 as a < b, a = b, a > b (both normalised)
RECURSIVE BigCmpRec(_, _, _)
BigCmpRec(a, b, i) ==
  IF i = 0 THEN 0
  ELSE IF a[i] < b[i] THEN -1
  ELSE IF a[i] > b[i] THEN 1
  ELSE BigCmpRec(a, b, i - 1)

BigCmp(a, b) ==
  IF Len(a) < Len(b) THEN -1
  ELSE IF Len(a) > Len(b) THEN 1
  ELSE BigCmpRec(a, b, Len(a))

\* a * c for 0 <= c <= Base
RECURSIVE BigMulSmallRec(_, _, _, _)
BigMulSmallRec(a, c, i, carry) ==
  IF i > Len(a)
  THEN IF carry = 0 THEN <<>> ELSE <<carry>>
  ELSE LET s == a[i] * c + carry
       IN  <<s % Base>> \o BigMulSmallRec(a, c, i + 1, s \div Base)

BigMulSmall(a, c) == BigNorm(BigMulSmallRec(a, c, 1, 0))

Zeros(n) == [i \in 1..n |-> 0]

BigShlLimbs(a, n) == IF a = <<>> THEN <<>> ELSE Zeros(n) \o a

RECURSIVE BigMulRec(_, _, _)
BigMulRec(a, b, j) ==
  IF j > Len(b) THEN <<>>
  ELSE BigAdd(BigShlLimbs(BigMulSmall(a, b[j]), j - 1), BigMulRec(a, b, j + 1))

BigMul(a, b) == BigNorm(BigMulRec(a, b, 1))

BigShl(a, s) ==
  BigShlLimbs(BigMulSmall(a, Pow2(s % LimbBits)), s \div LimbBits)

\* floor(a / c) for 0 < c <= Base, limbs taken from the highest down
RECURSIVE BigDivSmallRec(_, _, _, _)
BigDivSmallRec(a, c, i, rem) ==
  IF i = 0 THEN <<>>
  ELSE LET cur == rem * Base + a[i]
       IN  BigDivSmallRec(a, c, i - 1, cur % c) \o <<cur \div c>>

BigDivSmall(a, c) == BigNorm(BigDivSmallRec(a, c, Len(a), 0))

\* floor(a / 2^s)
BigShr(a, s) ==
  LET n == s \div LimbBits
  IN  IF n >= Len(a) THEN <<>>
      ELSE BigDivSmall(SubSeq(a, n + 1, Len(a)), Pow2(s % LimbBits))

RECURSIVE IntBitLen(_)
IntBitLen(n) == IF n = 0 THEN 0 ELSE 1 + IntBitLen(n \div 2)

BigBitLen(a) ==
  IF a = <<>> THEN 0 ELSE LimbBits * (Len(a) - 1) + IntBitLen(a[Len(a)])

BigIsOdd(a) == a /= <<>> /\ a[1] % 2 = 1

(***************************************************************************)
(* IEEE-754 binary64, the TypeScript `number`.  A finite value is          *)
(* (-1)^s * m * 2^q with m < 2^53; it is kept canonical (m has exactly 53  *)
(* bits, or q is the subnormal exponent), so equal values are equal        *)
(* records.                                                                *)
(***************************************************************************)
Prec == 53

MinExp == -1074

MaxExp == 971

Fin(s, m, q) == [k |-> "fin", s |-> s, m |-> m, q |-> q]

Zero(s) == Fin(s, <<>>, 0)

Inf(s) == [k |-> "inf", s |-> s, m |-> <<>>, q |-> 0]

NaN == [k |-> "nan", s |-> 0, m |-> <<>>, q |-> 0]

IsZero(x) == x.k = "fin" /\ x.m = <<>>

IntMax(a, b) == IF a >= b THEN a ELSE b

\* the binary64 nearest to (-1)^s * M * 2^E, ties to even
Round(s, M, E) ==
  IF M = <<>> THEN Zero(s)
  ELSE
    LET L  == BigBitLen(M)
        q  == IntMax(E + L - Prec, MinExp)
        sh == q - E
    IN  IF sh <= 0
        THEN IF q > MaxExp THEN Inf(s) ELSE Fin(s, BigShl(M, -sh), q)
        ELSE
          LET m0    == BigShr(M, sh)
              top   == BigShr(M, sh - 1)
              guard == BigIsOdd(top)
              rest  == BigShl(top, sh - 1) /= M
              up    == guard /\ (rest \/ BigIsOdd(m0))
              m1    == IF up THEN BigAdd(m0, BigOne) ELSE m0
              carry == BigBitLen(m1) > Prec
              m2    == IF carry THEN BigShr(m1, 1) ELSE m1
              q2    == IF carry THEN q + 1 ELSE q
          IN  IF m2 = <<>> THEN Zero(s)
              ELSE IF q2 > MaxExp THEN Inf(s)
              ELSE Fin(s, m2, q2)

\* a numeric literal with an integer value
FromInt(n) ==
  IF n < 0 THEN Round(1, BigFromInt(-n), 0) ELSE Round(0, BigFromInt(n), 0)

\* unary minus
FNeg(x) == IF x.k = "nan" THEN x ELSE [x EXCEPT !.s = 1 - x.s]

\* x * y
FMul(x, y) ==
  IF x.k = "nan" \/ y.k = "nan" THEN NaN
  ELSE
    LET s == (x.s + y.s) % 2
    IN  IF x.k = "inf" \/ y.k = "inf"
        THEN IF IsZero(x) \/ IsZero(y) THEN NaN ELSE Inf(s)
        ELSE Round(s, BigMul(x.m, y.m), x.q + y.q)

\* A significand as <<high, low>> halves of HalfBits bits each: restoring
\* division only doubles, compares and subtracts, which fits the integers.
HalfBits == 27

Half == 2 ^ HalfBits

ToPair(a) ==
  <<(Limb(a, 2) \div 4096) + Limb(a, 3) * 8 + Limb(a, 4) * 262144,
    Limb(a, 1) + (Limb(a, 2) % 4096) * Base>>

FromPair(h, l) ==
  BigNorm(<<l % Base, (l \div Base) + (h % 8) * 4096, (h \div 8) % Base,
            h \div 262144>>)

\* n further quotient bits of R / D: <<quotient high, low, remainder high, low>>
RECURSIVE DivBits(_, _, _, _, _, _, _)
DivBits(rh, rl, dh, dl, qh, ql, n) ==
  IF n = 0 THEN <<qh, ql, rh, rl>>
  ELSE
    LET rlo == (2 * rl) % Half
        rhi == 2 * rh + (2 * rl) \div Half
        ge  == rhi > dh \/ (rhi = dh /\ rlo >= dl)
        bit == IF ge THEN 1 ELSE 0
        sl  == IF ge THEN (IF rlo >= dl THEN rlo - dl ELSE rlo - dl + Half)
               ELSE rlo
        sh  == IF ge THEN (IF rlo >= dl THEN rhi - dh ELSE rhi - dh - 1)
               ELSE rhi
        qlo == (2 * ql + bit) % Half
        qhi == 2 * qh + (2 * ql + bit) \div Half
    IN  IF sl + sh + qlo + qhi >= 0
        THEN DivBits(sh, sl, dh, dl, qhi, qlo, n - 1)
        ELSE <<>>

\* x / y
FDiv(x, y) ==
  IF x.k = "nan" \/ y.k = "nan" THEN NaN
  ELSE
    LET s == (x.s + y.s) % 2
    IN  IF x.k = "inf" THEN (IF y.k = "inf" THEN NaN ELSE Inf(s))
        ELSE IF y.k = "inf" THEN Zero(s)
        ELSE IF IsZero(y) THEN (IF IsZero(x) THEN NaN ELSE Inf(s))
        ELSE IF IsZero(x) THEN Zero(s)
        ELSE
          LET nx == Prec - BigBitLen(x.m)
              ny == Prec - BigBitLen(y.m)
              mx == BigShl(x.m, nx)
              my == BigShl(y.m, ny)
              ge == BigCmp(mx, my) >= 0
              r0 == ToPair(IF ge THEN BigSub(mx, my) ELSE mx)
              d0 == ToPair(my)
              qr == DivBits(r0[1], r0[2], d0[1], d0[2], 0,
                            IF ge THEN 1 ELSE 0, Prec + 2)
              Q  == FromPair(qr[1], qr[2])
              Qs == BigAdd(BigMulSmall(Q, 2),
                           IF qr[3] = 0 /\ qr[4] = 0 THEN <<>> ELSE BigOne)
          IN  Round(s, Qs, (x.q - nx) - (y.q - ny) - (Prec + 3))

\* x === y
FEq(x, y) ==
  /\ x.k /= "nan"
  /\ y.k /= "nan"
  /\ (x = y \/ (IsZero(x) /\ IsZero(y)))

\* is the finite value x an integer
IsInteger(x) ==
  /\ x.k = "fin"
  /\ \/ x.m = <<>>
     \/ x.q >= 0
     \/ BigShl(BigShr(x.m, -x.q), -x.q) = x.m

\* |x| <= |y| for finite x, y (canonical records order like their values)
AbsLe(x, y) ==
  \/ x.m = <<>>
  \/ /\ y.m /= <<>>
     /\ \/ x.q < y.q
        \/ x.q = y.q /\ BigCmp(x.m, y.m) <= 0

(***************************************************************************)
(* class Duration: one private readonly field, milliseconds.               *)
(***************************************************************************)
NewDuration(ms) == [milliseconds |-> ms]

\* the placeholder held while no Duration has been constructed (ctor = "none")
NoDuration == [milliseconds |-> NaN]

\* the numeric literals of duration.ts
N7 == FromInt(7)

N24 == FromInt(24)

N60 == FromInt(60)

N365 == FromInt(365)

N1000 == FromInt(1000)

\* static milliseconds(milliseconds)
DurationMilliseconds(v) == NewDuration(v)

\* static seconds(seconds): seconds * 1000
DurationSeconds(v) == NewDuration(FMul(v, N1000))

\* static minutes(minutes): minutes * 60 * 1000
DurationMinutes(v) == NewDuration(FMul(FMul(v, N60), N1000))

\* static hours(hours): hours * 60 * 60 * 1000
DurationHours(v) == NewDuration(FMul(FMul(FMul(v, N60), N60), N1000))

\* static days(days): days * 24 * 60 * 60 * 1000
DurationDays(v) ==
  NewDuration(FMul(FMul(FMul(FMul(v, N24), N60), N60), N1000))

\* static weeks(weeks): weeks * 7 * 24 * 60 * 60 * 1000
DurationWeeks(v) ==
  NewDuration(FMul(FMul(FMul(FMul(FMul(v, N7), N24), N60), N60), N1000))

\* static years(years): years * 365 * 24 * 60 * 60 * 1000
DurationYears(v) ==
  NewDuration(FMul(FMul(FMul(FMul(FMul(v, N365), N24), N60), N60), N1000))

\* the parenthesised divisors of the accessors
MinutesDivisor == FMul(N60, N1000)

HoursDivisor == FMul(FMul(N60, N60), N1000)

DaysDivisor == FMul(FMul(FMul(N24, N60), N60), N1000)

WeeksDivisor == FMul(FMul(FMul(FMul(N7, N24), N60), N60), N1000)

YearsDivisor == FMul(FMul(FMul(FMul(N365, N24), N60), N60), N1000)

toMilliseconds(d) == d.milliseconds

\* this.milliseconds / 1000
toSeconds(d) == FDiv(d.milliseconds, N1000)

\* this.milliseconds / (60 * 1000)
toMinutes(d) == FDiv(d.milliseconds, MinutesDivisor)

\* this.milliseconds / (60 * 60 * 1000)
toHours(d) == FDiv(d.milliseconds, HoursDivisor)

\* this.milliseconds / (24 * 60 * 60 * 1000)
toDays(d) == FDiv(d.milliseconds, DaysDivisor)

\* toWeeks with the 7 left out of its divisor
toWeeksAsDays(d) == FDiv(d.milliseconds, DaysDivisor)

\* this.milliseconds / (7 * 24 * 60 * 60 * 1000)
toWeeks(d) == FDiv(d.milliseconds, WeeksDivisor)

\* this.milliseconds / (365 * 24 * 60 * 60 * 1000)
toYears(d) == FDiv(d.milliseconds, YearsDivisor)

(***************************************************************************)
(* The free unit shorthands: Duration.<unit>(v).toMilliseconds().          *)
(***************************************************************************)
milliseconds(v) == toMilliseconds(DurationMilliseconds(v))

seconds(v) == toMilliseconds(DurationSeconds(v))

minutes(v) == toMilliseconds(DurationMinutes(v))

\* hours delegating to the minutes constructor
hoursAsMinutes(v) == toMilliseconds(DurationMinutes(v))

hours(v) == toMilliseconds(DurationHours(v))

days(v) == toMilliseconds(DurationDays(v))

weeks(v) == toMilliseconds(DurationWeeks(v))

years(v) == toMilliseconds(DurationYears(v))

(***************************************************************************)
(* The host timer, the external collaborator behind setTimeout(cb, delay): *)
(* the delay is converted to a 32-bit signed integer (fraction dropped,    *)
(* reduced modulo 2^32, NaN and the infinities taken as 0), a negative     *)
(* result counts as 0, and a timer fires once, not before its delay has    *)
(* elapsed, earlier deadlines first and equal deadlines in creation order. *)
(***************************************************************************)
\* the whole part of |x| modulo 2^32, for finite x
WholeMod32(x) ==
  LET whole == IF x.q >= 32 \/ -x.q > Prec THEN <<>>
               ELSE IF x.q >= 0 THEN BigShl(x.m, x.q)
               ELSE BigShr(x.m, -x.q)
  IN  [low31 |-> Limb(whole, 1) + Base * Limb(whole, 2)
                   + Base * Base * (Limb(whole, 3) % 2),
       bit31 |-> (Limb(whole, 3) \div 2) % 2]

\* the delay in milliseconds the host gives a timer asked to wait x
HostTimeout(x) ==
  IF x.k /= "fin" THEN 0
  ELSE LET w == WholeMod32(x)
       IN  IF x.s = 0
           THEN IF w.bit31 = 1 THEN 0 ELSE w.low31
           ELSE IF w.bit31 = 1 /\ w.low31 > 0
                THEN Base * Base + (Base * Base - w.low31)
                ELSE 0

(***************************************************************************)
(* Inputs of the conversion checks: the literals n/d, the integers the     *)
(* documented examples use, and the largest power of two.                  *)
(***************************************************************************)
MaxNum == 3

Denominators == {1, 10, 97}

ExampleInputs == {7, 60, 365}

Huge == Fin(0, BigShl(BigOne, Prec - 1), MaxExp)

Values ==
  {FDiv(FromInt(n), FromInt(d)) : n \in (-MaxNum)..MaxNum, d \in Denominators}
    \cup {FromInt(n) : n \in ExampleInputs}
    \cup {Huge}

Units ==
  {"milliseconds", "seconds", "minutes", "hours", "days", "weeks", "years"}

NoRet == [op |-> "none", val |-> Zero(0)]

(***************************************************************************)
(* Inputs of the sleep checks: whole millisecond delays from -1 to MaxMs,  *)
(* and of one and a half milliseconds for sleep(ms), instances of one      *)
(* millisecond and of 25 days for Duration.sleep(); at most MaxDelays      *)
(* sleep calls, and a clock that runs one tick past MaxMs.                 *)
(***************************************************************************)
MaxMs == 1

MaxDelays == 2

MaxClock == MaxMs + 1

FractionalMs == FDiv(FromInt(3), FromInt(2))

LongDuration == DurationDays(FromInt(25))

SleepMs == {FromInt(n) : n \in (-1)..MaxMs} \cup {FractionalMs}

\* the Duration instances the caller holds
DurationPool == <<DurationMilliseconds(FromInt(1)), LongDuration>>

VARIABLES
  arg,         \* the argument of the call: the number handed to a constructor
               \* or shorthand, or the arguments of a utility function
  ctor,        \* the static constructor that built dur, "none" before
  dur,         \* the Duration under examination
  ret,         \* the last value a conversion accessor or a shorthand returned,
               \* or the frame and outcome of a utility function call
  clock,       \* wall-clock time in milliseconds
  durs,        \* the Duration instances sleep() is called on
  delays,      \* one record per call of Duration.sleep() or sleep(ms)
  timers,      \* the host's timer table, one record per setTimeout call
  microtasks   \* the promise job queue, first in first out

convVars == <<arg, ctor, dur, ret>>

sleepVars == <<clock, durs, delays, timers, microtasks>>

vars == <<arg, ctor, dur, ret, clock, durs, delays, timers, microtasks>>

SleepIdle ==
  /\ clock = 0
  /\ durs = DurationPool
  /\ delays = <<>>
  /\ timers = <<>>
  /\ microtasks = <<>>

ConvIdle ==
  /\ ctor = "none"
  /\ dur = NoDuration
  /\ ret = NoRet

Init ==
  /\ arg \in Values
  /\ ConvIdle
  /\ SleepIdle

Construct(unit, d) ==
  /\ ctor = "none"
  /\ ret = NoRet
  /\ ctor' = unit
  /\ dur' = d
  /\ UNCHANGED <<arg, ret>>
  /\ UNCHANGED sleepVars

CallDurationMilliseconds == Construct("milliseconds", DurationMilliseconds(arg))

CallDurationSeconds == Construct("seconds", DurationSeconds(arg))

CallDurationMinutes == Construct("minutes", DurationMinutes(arg))

CallDurationHours == Construct("hours", DurationHours(arg))

CallDurationDays == Construct("days", DurationDays(arg))

CallDurationWeeks == Construct("weeks", DurationWeeks(arg))

CallDurationYears == Construct("years", DurationYears(arg))

\* an accessor that hands back the remembered input when asked for the unit
\* the Duration was built in
AccessRemembering(unit, val) ==
  /\ ctor /= "none"
  /\ ret' = [op |-> unit, val |-> IF unit = ctor THEN arg ELSE val]
  /\ UNCHANGED <<arg, ctor, dur>>
  /\ UNCHANGED sleepVars

Access(unit, val) ==
  /\ ctor /= "none"
  /\ ret' = [op |-> unit, val |-> val]
  /\ UNCHANGED <<arg, ctor, dur>>
  /\ UNCHANGED sleepVars

CallToMilliseconds == Access("milliseconds", toMilliseconds(dur))

CallToSeconds == Access("seconds", toSeconds(dur))

CallToMinutes == Access("minutes", toMinutes(dur))

CallToHours == Access("hours", toHours(dur))

CallToDays == Access("days", toDays(dur))

CallToWeeks == Access("weeks", toWeeks(dur))

CallToYears == Access("years", toYears(dur))

Shorthand(unit, val) ==
  /\ ctor = "none"
  /\ ret = NoRet
  /\ ret' = [op |-> unit, val |-> val]
  /\ UNCHANGED <<arg, ctor, dur>>
  /\ UNCHANGED sleepVars

CallMilliseconds == Shorthand("milliseconds", milliseconds(arg))

CallSeconds == Shorthand("seconds", seconds(arg))

CallMinutes == Shorthand("minutes", minutes(arg))

CallHours == Shorthand("hours", hours(arg))

CallDays == Shorthand("days", days(arg))

CallWeeks == Shorthand("weeks", weeks(arg))

CallYears == Shorthand("years", years(arg))

Next ==
  \/ CallDurationMilliseconds
  \/ CallDurationSeconds
  \/ CallDurationMinutes
  \/ CallDurationHours
  \/ CallDurationDays
  \/ CallDurationWeeks
  \/ CallDurationYears
  \/ CallToMilliseconds
  \/ CallToSeconds
  \/ CallToMinutes
  \/ CallToHours
  \/ CallToDays
  \/ CallToWeeks
  \/ CallToYears
  \/ CallMilliseconds
  \/ CallSeconds
  \/ CallMinutes
  \/ CallHours
  \/ CallDays
  \/ CallWeeks
  \/ CallYears

Spec == Init /\ [][Next]_vars

(***************************************************************************)
(* Duration.sleep() and the free sleep(ms).                                *)
(*                                                                         *)
(*   async sleep() {                                                       *)
(*     await new Promise((resolve) =>                                      *)
(*       setTimeout(resolve, this.toMilliseconds()));                      *)
(*   }                                                                     *)
(*   sleep = async (ms) => { await Duration.milliseconds(ms).sleep(); }    *)
(*                                                                         *)
(* A call runs synchronously up to its await: the executor hands resolve   *)
(* to the host timer and the caller gets a pending promise.  When the      *)
(* timer fires, resolve() fulfils the inner promise; the continuations of  *)
(* Duration.sleep, of the free sleep and of the awaiting caller then run   *)
(* as promise jobs, in queue order.                                        *)
(***************************************************************************)
SleepInit ==
  /\ arg = Zero(0)
  /\ ConvIdle
  /\ SleepIdle

\* setTimeout(resolve, this.toSeconds()): the wrong accessor
SetTimeoutToSeconds(ms, owner) ==
  [delay |-> FDiv(ms, N1000), timeout |-> HostTimeout(FDiv(ms, N1000)),
   due |-> clock + HostTimeout(FDiv(ms, N1000)),
   state |-> "armed", fired |-> 0, callback |-> "resolve", owner |-> owner]

\* setTimeout(() => {}, ms): a callback that never calls resolve
SetTimeoutNoResolve(ms, owner) ==
  [delay |-> ms, timeout |-> HostTimeout(ms), due |-> clock + HostTimeout(ms),
   state |-> "armed", fired |-> 0, callback |-> "noop", owner |-> owner]

\* setTimeout(resolve, ms): the timer the host registers for delay `owner`
SetTimeout(ms, owner) ==
  [delay |-> ms, timeout |-> HostTimeout(ms), due |-> clock + HostTimeout(ms),
   state |-> "armed", fired |-> 0, callback |-> "resolve", owner |-> owner]

\* Duration.sleep() keeping one promise per instance: a call on an instance
\* whose earlier delay is still pending shares that delay's timer
DurationSleepMemoized(entry, ms, inst, d) ==
  LET same == {k \in DOMAIN delays :
                 delays[k].this = d /\ delays[k].inner = "pending"}
  IN  /\ Len(delays) < MaxDelays
      /\ clock + HostTimeout(toMilliseconds(d)) <= MaxClock
      /\ IF same = {}
         THEN timers' = Append(timers,
                SetTimeout(toMilliseconds(d), Len(delays) + 1))
         ELSE timers' = timers
      /\ delays' = Append(delays,
           [entry |-> entry, arg |-> ms, inst |-> inst, this |-> d,
            start |-> clock,
            timer |-> IF same = {} THEN Len(timers) + 1
                      ELSE delays[CHOOSE k \in same : TRUE].timer,
            inner |-> "pending", method |-> "pending",
            outer |-> IF entry = "sleep" THEN "pending" ELSE "none",
            value |-> "none", resumed |-> 0])
      /\ UNCHANGED <<clock, durs, microtasks>>
      /\ UNCHANGED convVars

\* Duration.sleep() registering a second timer beside the first
DurationSleepTwice(entry, ms, inst, d) ==
  /\ Len(delays) < MaxDelays
  /\ clock + HostTimeout(toMilliseconds(d)) <= MaxClock
  /\ timers' = Append(Append(timers,
                   SetTimeout(toMilliseconds(d), Len(delays) + 1)),
                   SetTimeout(toMilliseconds(d), Len(delays) + 1))
  /\ delays' = Append(delays,
       [entry |-> entry, arg |-> ms, inst |-> inst, this |-> d,
        start |-> clock, timer |-> Len(timers) + 1,
        inner |-> "pending", method |-> "pending",
        outer |-> IF entry = "sleep" THEN "pending" ELSE "none",
        value |-> "none", resumed |-> 0])
  /\ UNCHANGED <<clock, durs, microtasks>>
  /\ UNCHANGED convVars

\* Duration.sleep() counting the instance's own field down to zero
DurationSleepConsuming(entry, ms, inst, d) ==
  /\ Len(delays) < MaxDelays
  /\ clock + HostTimeout(toMilliseconds(d)) <= MaxClock
  /\ timers' = Append(timers, SetTimeout(toMilliseconds(d), Len(delays) + 1))
  /\ delays' = Append(delays,
       [entry |-> entry, arg |-> ms, inst |-> inst, this |-> d,
        start |-> clock, timer |-> Len(timers) + 1,
        inner |-> "pending", method |-> "pending",
        outer |-> IF entry = "sleep" THEN "pending" ELSE "none",
        value |-> "none", resumed |-> 0])
  /\ dur' = IF entry = "Duration.sleep" /\ d = dur
            THEN NewDuration(Zero(0)) ELSE dur
  /\ UNCHANGED <<clock, durs, microtasks>>
  /\ UNCHANGED <<arg, ctor, ret>>

\* Duration.sleep() resolving at once, with no wait for the timer, when the
\* duration is not positive
DurationSleepSkippingTimer(entry, ms, inst, d) ==
  LET skip == HostTimeout(toMilliseconds(d)) = 0
  IN  /\ Len(delays) < MaxDelays
      /\ clock + HostTimeout(toMilliseconds(d)) <= MaxClock
      /\ timers' = Append(timers,
           IF skip
           THEN [SetTimeout(toMilliseconds(d), Len(delays) + 1)
                   EXCEPT !.state = "fired"]
           ELSE SetTimeout(toMilliseconds(d), Len(delays) + 1))
      /\ delays' = Append(delays,
           [entry |-> entry, arg |-> ms, inst |-> inst, this |-> d,
            start |-> clock, timer |-> Len(timers) + 1,
            inner |-> IF skip THEN "fulfilled" ELSE "pending",
            method |-> "pending",
            outer |-> IF entry = "sleep" THEN "pending" ELSE "none",
            value |-> "none", resumed |-> 0])
      /\ microtasks' = IF skip
                       THEN Append(microtasks,
                              [job |-> "Duration.sleep", id |-> Len(delays) + 1])
                       ELSE microtasks
      /\ UNCHANGED <<clock, durs>>
      /\ UNCHANGED convVars

\* the body of Duration.sleep() on instance d, up to its await; ms is the
\* argument when the call came through the free sleep(ms), NaN otherwise
DurationSleep(entry, ms, inst, d) ==
  /\ Len(delays) < MaxDelays
  /\ clock + HostTimeout(toMilliseconds(d)) <= MaxClock
  /\ timers' = Append(timers, SetTimeout(toMilliseconds(d), Len(delays) + 1))
  /\ delays' = Append(delays,
       [entry |-> entry, arg |-> ms, inst |-> inst, this |-> d,
        start |-> clock, timer |-> Len(timers) + 1,
        inner |-> "pending", method |-> "pending",
        outer |-> IF entry = "sleep" THEN "pending" ELSE "none",
        value |-> "none", resumed |-> 0])
  /\ UNCHANGED <<clock, durs, microtasks>>
  /\ UNCHANGED convVars

\* duration.sleep() on one of the caller's instances
CallDurationSleep ==
  \E i \in DOMAIN durs : DurationSleep("Duration.sleep", NaN, i, durs[i])

\* sleep(ms) without the await: Duration.milliseconds(ms).sleep() is started
\* and the async function returns at once
CallSleepNoAwait ==
  \E ms \in SleepMs :
    /\ Len(delays) < MaxDelays
    /\ clock + HostTimeout(ms) <= MaxClock
    /\ timers' = Append(timers,
         SetTimeout(toMilliseconds(DurationMilliseconds(ms)), Len(delays) + 1))
    /\ delays' = Append(delays,
         [entry |-> "sleep", arg |-> ms, inst |-> 0,
          this |-> DurationMilliseconds(ms),
          start |-> clock, timer |-> Len(timers) + 1,
          inner |-> "pending", method |-> "pending", outer |-> "fulfilled",
          value |-> "none", resumed |-> 0])
    /\ microtasks' = Append(microtasks,
         [job |-> "caller", id |-> Len(delays) + 1])
    /\ UNCHANGED <<clock, durs>>
    /\ UNCHANGED convVars

\* sleep(ms): await Duration.milliseconds(ms).sleep()
CallSleep ==
  \E ms \in SleepMs : DurationSleep("sleep", ms, 0, DurationMilliseconds(ms))

\* wall-clock time passes
Tick ==
  /\ clock < MaxClock
  /\ clock' = clock + 1
  /\ UNCHANGED <<durs, delays, timers, microtasks>>
  /\ UNCHANGED convVars

Armed == {t \in DOMAIN timers : timers[t].state = "armed"}

\* the armed timer the host runs next: due, earliest deadline, oldest first
IsNextTimer(t) ==
  /\ t \in Armed
  /\ timers[t].due <= clock
  /\ \A u \in Armed :
       \/ timers[u].due > timers[t].due
       \/ timers[u].due = timers[t].due /\ u >= t

\* a timer registered with setInterval: it stays armed after its callback ran
TimerFireRepeating ==
  \E t \in DOMAIN timers :
    /\ microtasks = <<>>
    /\ IsNextTimer(t)
    /\ timers[t].fired < 2
    /\ timers' = [timers EXCEPT ![t].fired = @ + 1]
    /\ IF timers[t].callback = "resolve"
            /\ delays[timers[t].owner].inner = "pending"
       THEN /\ delays' = [delays EXCEPT ![timers[t].owner].inner = "fulfilled"]
            /\ microtasks' = Append(microtasks,
                 [job |-> "Duration.sleep", id |-> timers[t].owner])
       ELSE UNCHANGED <<delays, microtasks>>
    /\ UNCHANGED <<clock, durs>>
    /\ UNCHANGED convVars

\* the host runs the timer's callback once; resolve() fulfils the inner
\* promise (with no value) and queues the continuation of Duration.sleep;
\* resolve() on a settled promise does nothing
TimerFire ==
  \E t \in DOMAIN timers :
    /\ microtasks = <<>>
    /\ IsNextTimer(t)
    /\ timers' = [timers EXCEPT ![t].state = "fired", ![t].fired = @ + 1]
    /\ IF timers[t].callback = "resolve"
            /\ delays[timers[t].owner].inner = "pending"
       THEN /\ delays' = [delays EXCEPT ![timers[t].owner].inner = "fulfilled"]
            /\ microtasks' = Append(microtasks,
                 [job |-> "Duration.sleep", id |-> timers[t].owner])
       ELSE UNCHANGED <<delays, microtasks>>
    /\ UNCHANGED <<clock, durs>>
    /\ UNCHANGED convVars

HeadJob(job) == microtasks /= <<>> /\ microtasks[1].job = job

\* Duration.sleep() resumes after its await and returns
ResumeDurationSleep ==
  /\ HeadJob("Duration.sleep")
  /\ LET id == microtasks[1].id
     IN  /\ delays' = [delays EXCEPT ![id].method = "fulfilled"]
         /\ microtasks' = Append(Tail(microtasks),
              [job |-> IF delays[id].entry = "sleep" THEN "sleep" ELSE "caller",
               id |-> id])
  /\ UNCHANGED <<clock, durs, timers>>
  /\ UNCHANGED convVars

\* the free sleep(ms) resumes after its await and returns
ResumeSleep ==
  /\ HeadJob("sleep")
  /\ LET id == microtasks[1].id
     IN  /\ delays' = [delays EXCEPT ![id].outer = "fulfilled"]
         /\ microtasks' = Append(Tail(microtasks), [job |-> "caller", id |-> id])
  /\ UNCHANGED <<clock, durs, timers>>
  /\ UNCHANGED convVars

\* the caller awaiting the returned promise resumes with its value
ResumeCaller ==
  /\ HeadJob("caller")
  /\ LET id == microtasks[1].id
     IN  delays' = [delays EXCEPT ![id].resumed = @ + 1, ![id].value = "undefined"]
  /\ microtasks' = Tail(microtasks)
  /\ UNCHANGED <<clock, durs, timers>>
  /\ UNCHANGED convVars

SleepNext ==
  \/ CallDurationSleep
  \/ CallSleep
  \/ Tick
  \/ TimerFire
  \/ ResumeDurationSleep
  \/ ResumeSleep
  \/ ResumeCaller

SleepSpec == SleepInit /\ [][SleepNext]_vars

\* time passes, the host runs due timers and the job queue is drained
SleepLive ==
  /\ SleepSpec
  /\ WF_vars(Tick)
  /\ WF_vars(TimerFire)
  /\ WF_vars(ResumeDurationSleep)
  /\ WF_vars(ResumeSleep)
  /\ WF_vars(ResumeCaller)

(***************************************************************************)
(* The claims about the conversions, checked under Spec.                   *)
(***************************************************************************)
\* the milliseconds-per-unit table of the specification
UnitFactor ==
  [milliseconds |-> FromInt(1),
   seconds      |-> FromInt(1000),
   minutes      |-> FromInt(60000),
   hours        |-> FromInt(3600000),
   days         |-> FromInt(86400000),
   weeks        |-> FromInt(604800000),
   years        |-> FMul(FromInt(31536), FromInt(1000000))]

TwoPow53 == Fin(0, BigShl(BigOne, Prec - 1), 1)

\* v is an integer whose product with the factor of unit is exact
ExactInput(v, unit) ==
  /\ IsInteger(v)
  /\ FMul(v, UnitFactor[unit]).k = "fin"
  /\ AbsLe(FMul(v, UnitFactor[unit]), TwoPow53)

Constructed == ctor \in Units

Accessed == ctor \in Units /\ ret.op \in Units

ShorthandCalled == ctor = "none" /\ ret.op \in Units

DurationOf(unit, v) ==
  CASE unit = "milliseconds" -> DurationMilliseconds(v)
    [] unit = "seconds" -> DurationSeconds(v)
    [] unit = "minutes" -> DurationMinutes(v)
    [] unit = "hours" -> DurationHours(v)
    [] unit = "days" -> DurationDays(v)
    [] unit = "weeks" -> DurationWeeks(v)
    [] unit = "years" -> DurationYears(v)

\* C1: for every unit U and number v, the Duration built from v units of U
\* reports toMilliseconds() equal to v multiplied by the table factor of U.
C1_MillisecondsIsValueTimesFactor ==
  Constructed => FEq(toMilliseconds(dur), FMul(arg, UnitFactor[ctor]))

\* C2: for every pair of units U and V, the accessor for V applied to a
\* Duration built from v units of U returns v * factor(U) / factor(V).
C2_CrossUnitConversion ==
  Accessed =>
    FEq(ret.val, FDiv(FMul(arg, UnitFactor[ctor]), UnitFactor[ret.op]))

\* C3 as stated: for every unit U and every finite v, converting a Duration
\* built from v units of U back to U returns v.
C3_RoundTripEveryFinite ==
  (Accessed /\ ret.op = ctor /\ arg.k = "fin") => FEq(ret.val, arg)

\* C3 as amended: the round trip returns v for every integer v whose product
\* with the unit's factor is at most 2^53 in magnitude, and the milliseconds
\* constructor/accessor pair hands back any x unchanged.
C3_RoundTripExactIntegers ==
  /\ (Accessed /\ ret.op = ctor /\ ExactInput(arg, ctor)) => FEq(ret.val, arg)
  /\ (Accessed /\ ret.op = ctor /\ ctor = "milliseconds") => ret.val = arg

C3_Witness ==
  /\ Accessed
  /\ ret.op = ctor
  /\ ctor = "weeks"
  /\ arg = FromInt(7)
  /\ ret.val = arg

\* C7: the free shorthand for unit U applied to v returns what building a
\* Duration from v units of U and calling toMilliseconds() returns; for v = 1
\* that is the unit's table factor (seconds(1) is 1000, hours(1) is 3,600,000,
\* years(1) is 31,536,000,000).
C7_ShorthandIsConstructThenToMilliseconds ==
  ShorthandCalled =>
    /\ ret.val = toMilliseconds(DurationOf(ret.op, arg))
    /\ arg = FromInt(1) => ret.val = UnitFactor[ret.op]

C7_Witness ==
  /\ ShorthandCalled
  /\ ret.op = "years"
  /\ arg = FromInt(1)
  /\ ret.val = FMul(FromInt(31536), FromInt(1000000))

(***************************************************************************)
(* The claims about sleeping, checked under SleepSpec and SleepLive.       *)
(***************************************************************************)
\* x < y on numbers, as JavaScript compares them
FLt(x, y) ==
  IF x.k = "nan" \/ y.k = "nan" THEN FALSE
  ELSE IF x.k = "inf" \/ y.k = "inf"
    THEN IF x.k = "inf" /\ y.k = "inf" THEN x.s = 1 /\ y.s = 0
         ELSE IF x.k = "inf" THEN x.s = 1 ELSE y.s = 0
  ELSE IF IsZero(x) /\ IsZero(y) THEN FALSE
  ELSE IF x.s /= y.s THEN x.s = 1
  ELSE IF x.s = 0 THEN ~AbsLe(y, x)
  ELSE ~AbsLe(x, y)

\* the duration a delay was asked to last, in milliseconds
Requested(id) == toMilliseconds(delays[id].this)

\* wall-clock milliseconds since the delay was started
Elapsed(id) == clock - delays[id].start

\* the state of the promise the call handed to its caller
ReturnedOf(d) == IF d.entry = "sleep" THEN d.outer ELSE d.method

Returned(id) == ReturnedOf(delays[id])

TimerOf(id) == timers[delays[id].timer]

Unresolved(id) ==
  /\ delays[id].inner = "pending"
  /\ Returned(id) = "pending"
  /\ delays[id].resumed = 0

OwnTimers(id) == {t \in DOMAIN timers : timers[t].owner = id}

\* C4: while less wall-clock time than the Duration's milliseconds has passed
\* since sleep() was called, the delay has not resolved: its promise is
\* pending and the caller has not resumed.
C4_NeverResolvesEarly ==
  \A id \in DOMAIN delays :
    FLt(FromInt(Elapsed(id)), Requested(id)) => Unresolved(id)

\* C5: every started delay eventually resolves, and the caller awaiting it
\* resumes; it resolves once only (the timer runs once, the caller resumes
\* once and stays resumed) and with no value.
C5_ResolvesExactlyOnce ==
  /\ \A id \in 1..MaxDelays :
       (id \in DOMAIN delays) ~>
         (/\ id \in DOMAIN delays
          /\ Returned(id) = "fulfilled"
          /\ delays[id].resumed = 1
          /\ delays[id].value = "undefined")
  /\ [](\A id \in DOMAIN delays :
          /\ delays[id].resumed <= 1
          /\ TimerOf(id).fired <= 1
          /\ Returned(id) \in {"pending", "fulfilled"}
          /\ delays[id].resumed = 1 => delays[id].value = "undefined")
  /\ [][\A id \in DOMAIN delays :
          /\ delays[id].resumed = 1 => delays'[id].resumed = 1
          /\ ReturnedOf(delays[id]) = "fulfilled"
               => ReturnedOf(delays'[id]) = "fulfilled"]_vars

C5_Witness ==
  \E id \in DOMAIN delays :
    /\ Returned(id) = "fulfilled"
    /\ delays[id].resumed = 1
    /\ delays[id].value = "undefined"
    /\ TimerOf(id).fired = 1
    /\ Requested(id) = FromInt(1)
    /\ clock = MaxClock

\* C6: sleep(ms) behaves as Duration.milliseconds(ms).sleep(): one host
\* timer with the same delay in milliseconds, a promise that is pending until
\* that timer fires and is then fulfilled with no value; a call on an instance
\* built by Duration.milliseconds(ms) shows the same timer and the same outcome.
C6_SleepIsDurationMillisecondsSleep ==
  \A i \in DOMAIN delays :
    delays[i].entry = "sleep" =>
      /\ Cardinality(OwnTimers(i)) = 1
      /\ delays[i].this = DurationMilliseconds(delays[i].arg)
      /\ TimerOf(i).timeout = HostTimeout(delays[i].arg)
      /\ TimerOf(i).due = delays[i].start + HostTimeout(delays[i].arg)
      /\ TimerOf(i).fired = 0 => Unresolved(i)
      /\ (TimerOf(i).fired = 1 /\ microtasks = <<>>) =>
           /\ Returned(i) = "fulfilled"
           /\ delays[i].resumed = 1
           /\ delays[i].value = "undefined"
      /\ \A j \in DOMAIN delays :
           (/\ delays[j].entry = "Duration.sleep"
            /\ delays[j].this = DurationMilliseconds(delays[i].arg)) =>
             /\ Cardinality(OwnTimers(j)) = Cardinality(OwnTimers(i))
             /\ TimerOf(j).timeout = TimerOf(i).timeout
             /\ delays[j].start = delays[i].start =>
                  TimerOf(j).due = TimerOf(i).due
             /\ (microtasks = <<>> /\ TimerOf(j).fired = TimerOf(i).fired) =>
                  /\ Returned(j) = Returned(i)
                  /\ delays[j].resumed = delays[i].resumed
                  /\ delays[j].value = delays[i].value

C6_Witness ==
  \E i, j \in DOMAIN delays :
    /\ delays[i].entry = "sleep"
    /\ delays[i].arg = FromInt(1)
    /\ delays[j].entry = "Duration.sleep"
    /\ delays[j].this = DurationMilliseconds(FromInt(1))
    /\ delays[j].start = delays[i].start
    /\ microtasks = <<>>
    /\ Returned(i) = "fulfilled"
    /\ Returned(j) = "fulfilled"
    /\ delays[i].value = "undefined"

C9_OnlyPendingToElapsed ==
  [][\A id \in DOMAIN delays :
       /\ id \in DOMAIN delays'
       /\ delays'[id].timer = delays[id].timer
       /\ delays'[id].start = delays[id].start
       /\ delays'[id].this = delays[id].this
       /\ timers'[delays[id].timer].due = TimerOf(id).due
       /\ timers'[delays[id].timer].timeout = TimerOf(id).timeout
       /\ timers'[delays[id].timer].owner = id
       /\ timers'[delays[id].timer].fired <= 1
       /\ TimerOf(id).state = "fired" =>
            /\ timers'[delays[id].timer].state = "fired"
            /\ timers'[delays[id].timer].fired = TimerOf(id).fired
       /\ delays'[id].inner /= delays[id].inner =>
            /\ delays[id].inner = "pending"
            /\ delays'[id].inner = "fulfilled"
            /\ TimerOf(id).state = "armed"
            /\ timers'[delays[id].timer].state = "fired"
       /\ ReturnedOf(delays[id]) /= "pending" =>
            ReturnedOf(delays'[id]) = ReturnedOf(delays[id])
       /\ delays'[id].resumed >= delays[id].resumed
       /\ delays'[id].resumed <= 1]_vars

C9_Witness ==
  \E i, j \in DOMAIN delays :
    /\ delays[i].inst /= 0
    /\ delays[j].inst = delays[i].inst
    /\ delays[i].resumed = 1
    /\ TimerOf(i).state = "fired"
    /\ delays[j].start >= TimerOf(i).due
    /\ Requested(j) = FromInt(1)
    /\ Unresolved(j)

\* C10: every call of sleep starts a delay of its own, with its own timer and
\* its own promise, also for two calls on the same instance; a step that
\* starts or advances one delay leaves every other delay and its timer as
\* they were.
C10_IndependentDelays ==
  /\ [](/\ Len(timers) = Len(delays)
        /\ \A i \in DOMAIN delays :
             /\ TimerOf(i).owner = i
             /\ \A j \in DOMAIN delays : i /= j =>
                  delays[i].timer /= delays[j].timer)
  /\ [][/\ Len(delays') > Len(delays) =>
             \A j \in DOMAIN delays :
               /\ delays'[j] = delays[j]
               /\ timers'[delays[j].timer] = TimerOf(j)
        /\ \A i \in DOMAIN delays :
             (delays'[i] /= delays[i]
                \/ timers'[delays[i].timer] /= TimerOf(i)) =>
               \A j \in DOMAIN delays \ {i} :
                 /\ delays'[j] = delays[j]
                 /\ timers'[delays[j].timer] = TimerOf(j)]_vars

C10_Witness ==
  \E i, j \in DOMAIN delays :
    /\ i /= j
    /\ delays[i].inst /= 0
    /\ delays[j].inst = delays[i].inst
    /\ delays[j].start = delays[i].start
    /\ delays[i].timer /= delays[j].timer
    /\ delays[i].resumed = 1
    /\ Unresolved(j)

(***************************************************************************)
(* The life of one Duration: it is built by a static constructor, read by  *)
(* the accessors and slept on, directly and through the free sleep(ms),    *)
(* in any order; the shorthands are called beside it.                      *)
(***************************************************************************)
LifeValues == {FromInt(1)}

\* sleep calls made on the Duration under examination
LifeDelays == MaxDelays - 1

LifeInit ==
  /\ arg \in LifeValues
  /\ ConvIdle
  /\ SleepIdle

\* the instance number of the Duration under examination
DurInstance == Len(DurationPool) + 1

\* dur.sleep() on the Duration under examination
CallDurSleep ==
  /\ ctor \in Units
  /\ Len(delays) < LifeDelays
  /\ DurationSleep("Duration.sleep", NaN, DurInstance, dur)

\* sleep(dur.toMilliseconds()): the free function given the same delay
CallSleepOfDur ==
  /\ ctor \in Units
  /\ Len(delays) < LifeDelays
  /\ DurationSleep("sleep", toMilliseconds(dur), 0,
                   DurationMilliseconds(toMilliseconds(dur)))

LifeNext ==
  \/ Next
  \/ CallDurSleep
  \/ CallSleepOfDur
  \/ Tick
  \/ TimerFire
  \/ ResumeDurationSleep
  \/ ResumeSleep
  \/ ResumeCaller

LifeSpec == LifeInit /\ [][LifeNext]_vars

\* C11: a Duration is immutable: whatever accessors and sleeps have been
\* called on it, with delays pending or elapsed, it still holds the value its
\* constructor stored, every delay started from it was started from that same
\* value, and no step changes it.
C11_DurationIsImmutable ==
  /\ [](Constructed =>
          /\ dur = DurationOf(ctor, arg)
          /\ (ret.op = "milliseconds" =>
                ret.val = toMilliseconds(DurationOf(ctor, arg)))
          /\ \A id \in DOMAIN delays :
               delays[id].inst = DurInstance =>
                 toMilliseconds(delays[id].this) = toMilliseconds(dur))
  /\ [][Constructed => (ctor' = ctor /\ dur' = dur /\ durs' = durs)]_vars

C11_Witness ==
  /\ Constructed
  /\ ret.op = "years"
  /\ toMilliseconds(dur) = FromInt(1)
  /\ \E id \in DOMAIN delays :
       /\ delays[id].inst = DurInstance
       /\ delays[id].resumed = 1
       /\ TimerOf(id).state = "fired"

\* a value of the TypeScript type number
IsNumber(x) == x.k \in {"fin", "inf", "nan"}

IsNegative(x) == x.k = "fin" /\ x.s = 1 /\ ~IsZero(x)

\* C12: construction and conversion never fail and never validate: every
\* constructor returns a Duration holding a number and every accessor returns
\* a number, and a negative input is stored as the negative value input times
\* the unit's factor, neither rejected nor clamped.
C12_NeverFailsNeverValidates ==
  /\ Constructed =>
       /\ IsNumber(toMilliseconds(dur))
       /\ IsNegative(arg) =>
            /\ toMilliseconds(dur).s = 1
            /\ FEq(toMilliseconds(dur), FMul(arg, UnitFactor[ctor]))
  /\ Accessed =>
       /\ IsNumber(ret.val)
       /\ IsNegative(arg) => ret.val.s = 1

AccessorOf(unit, d) ==
  CASE unit = "milliseconds" -> toMilliseconds(d)
    [] unit = "seconds" -> toSeconds(d)
    [] unit = "minutes" -> toMinutes(d)
    [] unit = "hours" -> toHours(d)
    [] unit = "days" -> toDays(d)
    [] unit = "weeks" -> toWeeks(d)
    [] unit = "years" -> toYears(d)

\* every Duration the static constructors build from the inputs
AllDurations == {DurationOf(u, v) : u \in Units, v \in Values}

\* C13: two Durations with equal stored milliseconds cannot be told apart:
\* whatever an accessor returned for the Duration at hand, it returns an equal
\* number for every Duration with an equal stored value, whichever constructor
\* built it, and sleep asks the host timer for the same delay for both.
C13_EqualMillisecondsIndistinguishable ==
  Accessed =>
    \A d \in AllDurations \cup {DurationMilliseconds(toMilliseconds(dur))} :
      FEq(toMilliseconds(d), toMilliseconds(dur)) =>
        /\ FEq(AccessorOf(ret.op, d), ret.val)
        /\ SetTimeout(toMilliseconds(d), 0).timeout
             = SetTimeout(toMilliseconds(dur), 0).timeout

C13_Witness ==
  /\ Accessed
  /\ ctor = "seconds"
  /\ arg = FromInt(60)
  /\ ret.op = "hours"
  /\ FEq(toMilliseconds(DurationMinutes(FromInt(1))), toMilliseconds(dur))
  /\ FEq(toHours(DurationMinutes(FromInt(1))), ret.val)

\* C14: every call of sleep, on the instance or through the free function,
\* calls the host's setTimeout exactly once, passing the Duration's
\* toMilliseconds() as the delay; a step that constructs, converts or calls a
\* shorthand registers no timer.
C14_OneHostCallPerSleep ==
  /\ [](/\ Len(timers) = Len(delays)
        /\ \A id \in DOMAIN delays :
             /\ Cardinality(OwnTimers(id)) = 1
             /\ TimerOf(id).delay = toMilliseconds(delays[id].this)
             /\ TimerOf(id).callback = "resolve")
  /\ [][/\ Len(delays') = Len(delays) + 1 =>
             /\ Len(timers') = Len(timers) + 1
             /\ convVars' = convVars
        /\ Len(delays') = Len(delays) => Len(timers') = Len(timers)
        /\ convVars' /= convVars => timers' = timers]_vars

C14_Witness ==
  /\ Accessed
  /\ ret.op = "seconds"
  /\ Len(timers) = 1
  /\ \E id \in DOMAIN delays :
       /\ delays[id].entry = "sleep"
       /\ TimerOf(id).delay = FromInt(1)
       /\ TimerOf(id).fired = 1
       /\ delays[id].resumed = 1

(***************************************************************************)
(* sleep when the host's setTimeout throws.  The throw happens inside the  *)
(* Promise executor, so the inner promise is rejected with the thrown      *)
(* error and no timer exists; the await in Duration.sleep rethrows it in a *)
(* promise job, which rejects the promise of Duration.sleep, and the await *)
(* in the free sleep does the same one job later.  A promise rejected with *)
(* an error has that error's name as its state.                            *)
(***************************************************************************)
HostFailures == {"TimerLimitError", "OutOfMemoryError"}

\* the body of Duration.sleep() up to its await when setTimeout throws e
DurationSleepThrows(entry, ms, inst, d, e) ==
  /\ Len(delays) < MaxDelays
  /\ delays' = Append(delays,
       [entry |-> entry, arg |-> ms, inst |-> inst, this |-> d,
        start |-> clock, timer |-> 0,
        inner |-> e, method |-> "pending",
        outer |-> IF entry = "sleep" THEN "pending" ELSE "none",
        value |-> "none", resumed |-> 0])
  /\ microtasks' = Append(microtasks,
       [job |-> "Duration.sleep throws", id |-> Len(delays) + 1])
  /\ UNCHANGED <<clock, durs, timers>>
  /\ UNCHANGED convVars

CallDurationSleepThrows ==
  \E i \in DOMAIN durs, e \in HostFailures :
    DurationSleepThrows("Duration.sleep", NaN, i, durs[i], e)

CallSleepThrows ==
  \E e \in HostFailures :
    DurationSleepThrows("sleep", FromInt(1), 0,
                        DurationMilliseconds(FromInt(1)), e)

\* a try/catch around the await that swallows the error
SwallowDurationSleep ==
  /\ HeadJob("Duration.sleep throws")
  /\ LET id == microtasks[1].id
     IN  /\ delays' = [delays EXCEPT ![id].method = "fulfilled"]
         /\ microtasks' = Append(Tail(microtasks),
              [job |-> IF delays[id].entry = "sleep" THEN "sleep" ELSE "caller",
               id |-> id])
  /\ UNCHANGED <<clock, durs, timers>>
  /\ UNCHANGED convVars

\* the await in Duration.sleep() rethrows: its promise is rejected
ThrowDurationSleep ==
  /\ HeadJob("Duration.sleep throws")
  /\ LET id == microtasks[1].id
     IN  /\ delays' = [delays EXCEPT ![id].method = delays[id].inner]
         /\ microtasks' = Append(Tail(microtasks),
              [job |-> IF delays[id].entry = "sleep"
                       THEN "sleep throws" ELSE "caller catches",
               id |-> id])
  /\ UNCHANGED <<clock, durs, timers>>
  /\ UNCHANGED convVars

\* the await in the free sleep(ms) rethrows: its promise is rejected
ThrowSleep ==
  /\ HeadJob("sleep throws")
  /\ LET id == microtasks[1].id
     IN  /\ delays' = [delays EXCEPT ![id].outer = delays[id].method]
         /\ microtasks' = Append(Tail(microtasks),
              [job |-> "caller catches", id |-> id])
  /\ UNCHANGED <<clock, durs, timers>>
  /\ UNCHANGED convVars

\* the caller awaiting the returned promise gets the error it was rejected with
CatchCaller ==
  /\ HeadJob("caller catches")
  /\ LET id == microtasks[1].id
     IN  delays' = [delays EXCEPT ![id].resumed = @ + 1,
                                  ![id].value = ReturnedOf(delays[id])]
  /\ microtasks' = Tail(microtasks)
  /\ UNCHANGED <<clock, durs, timers>>
  /\ UNCHANGED convVars

FailNext ==
  \/ SleepNext
  \/ CallDurationSleepThrows
  \/ CallSleepThrows
  \/ ThrowDurationSleep
  \/ ThrowSleep
  \/ CatchCaller

FailSpec == SleepInit /\ [][FailNext]_vars

\* C15: when setTimeout throws, the promise sleep returned is rejected with
\* that very error, on the instance and through the free function: it is
\* never fulfilled and never rejected with another error, once the promise
\* jobs have run the caller has caught that error, once; no timer is
\* registered in a second attempt and the Duration is unchanged.
C15_HostFailurePropagates ==
  /\ [](\A id \in DOMAIN delays :
          delays[id].inner \in HostFailures =>
            /\ delays[id].method \in {"pending", delays[id].inner}
            /\ Returned(id) \in {"pending", delays[id].inner}
            /\ delays[id].resumed <= 1
            /\ delays[id].resumed = 1 => delays[id].value = delays[id].inner
            /\ microtasks = <<>> =>
                 /\ Returned(id) = delays[id].inner
                 /\ delays[id].resumed = 1
            /\ OwnTimers(id) = {}
            /\ delays[id].inst \in DOMAIN durs =>
                 durs[delays[id].inst] = delays[id].this)
  /\ [][durs' = durs]_vars

C15_Witness ==
  \E i, j \in DOMAIN delays :
    /\ delays[i].entry = "sleep"
    /\ delays[i].inner = "TimerLimitError"
    /\ delays[i].outer = "TimerLimitError"
    /\ delays[i].value = "TimerLimitError"
    /\ delays[j].entry = "Duration.sleep"
    /\ delays[j].inner = "OutOfMemoryError"
    /\ delays[j].method = "OutOfMemoryError"
    /\ delays[j].resumed = 1

(***************************************************************************)
(* The utility functions of numbers.ts and core.ts.  A call has its        *)
(* arguments in arg and its frame and outcome in ret; chunk runs its loop  *)
(* one iteration per step, the other functions return in one step.         *)
(***************************************************************************)
IntMin(a, b) == IF a <= b THEN a ELSE b

\* Array.prototype.slice(from, to): a negative index counts from the end,
\* both are clamped to the array; positions are zero-based
SliceIndex(k, len) == IF k < 0 THEN IntMax(len + k, 0) ELSE IntMin(k, len)

Slice(arr, from, to) ==
  LET f == SliceIndex(from, Len(arr))
      t == SliceIndex(to, Len(arr))
  IN  IF f < t THEN SubSeq(arr, f + 1, t) ELSE <<>>

RECURSIVE SeqsUpTo(_, _)
SeqsUpTo(S, n) ==
  IF n = 0 THEN {<<>>}
  ELSE LET shorter == SeqsUpTo(S, n - 1)
       IN  shorter \cup {Append(q, x) : q \in shorter, x \in S}

MaxLen == 3

MaxSize == 4

Elements == {"a", "b"}

ChunkInputs ==
  {[fn |-> "chunk", arr |-> a, size |-> n] :
     a \in SeqsUpTo(Elements, MaxLen), n \in (-1)..MaxSize}

ChunkFrame(pc, i, result, error) ==
  [op |-> "chunk",
   val |-> [pc |-> pc, i |-> i, result |-> result, error |-> error]]

\* chunk(arr, size) with the guard written size < 0
CallChunkZeroAllowed ==
  /\ arg.fn = "chunk"
  /\ ret.op = "none"
  /\ ret' = IF arg.size < 0
            THEN ChunkFrame("throw", 0, <<>>, "chunk size must be > 0")
            ELSE ChunkFrame("loop", 0, <<>>, "none")
  /\ UNCHANGED <<arg, ctor, dur>>
  /\ UNCHANGED sleepVars

\* chunk(arr, size): the guard, then const result = [] and let i = 0
CallChunk ==
  /\ arg.fn = "chunk"
  /\ ret.op = "none"
  /\ ret' = IF arg.size <= 0
            THEN ChunkFrame("throw", 0, <<>>, "chunk size must be > 0")
            ELSE ChunkFrame("loop", 0, <<>>, "none")
  /\ UNCHANGED <<arg, ctor, dur>>
  /\ UNCHANGED sleepVars

\* the loop body with slice(i, size): the size taken for the end position
ChunkLoopSliceLength ==
  /\ ret.op = "chunk"
  /\ ret.val.pc = "loop"
  /\ ret.val.i < Len(arg.arr)
  /\ ret' = ChunkFrame("loop", ret.val.i + arg.size,
              Append(ret.val.result, Slice(arg.arr, ret.val.i, arg.size)),
              "none")
  /\ UNCHANGED <<arg, ctor, dur>>
  /\ UNCHANGED sleepVars

\* one iteration: i < arr.length; result.push(arr.slice(i, i + size)); i += size
ChunkLoop ==
  /\ ret.op = "chunk"
  /\ ret.val.pc = "loop"
  /\ ret.val.i < Len(arg.arr)
  /\ ret' = ChunkFrame("loop", ret.val.i + arg.size,
              Append(ret.val.result,
                     Slice(arg.arr, ret.val.i, ret.val.i + arg.size)),
              "none")
  /\ UNCHANGED <<arg, ctor, dur>>
  /\ UNCHANGED sleepVars

\* the loop condition fails: return result
ChunkReturn ==
  /\ ret.op = "chunk"
  /\ ret.val.pc = "loop"
  /\ ~(ret.val.i < Len(arg.arr))
  /\ ret' = ChunkFrame("return", ret.val.i, ret.val.result, "none")
  /\ UNCHANGED <<arg, ctor, dur>>
  /\ UNCHANGED sleepVars

\* `a % b` of integers: the remainder takes the sign of the dividend
Rem(a, b) == IF a >= 0 THEN a % b ELSE -((-a) % b)

\* the string of an integer number, as `num + "th"` converts it
NumberToString(n) == ToString(n)

MaxN == 123

JsNull == [kind |-> "null"]

JsUndefined == [kind |-> "undefined"]

JsNumber(n) == [kind |-> "number", n |-> n]

OrdinalizeInputs ==
  {[fn |-> "ordinalize", num |-> x] :
     x \in {JsNumber(n) : n \in 0..MaxN} \cup {JsNull, JsUndefined}}

\* num ||= 0: null, undefined and 0 become 0
OrZero(num) == IF num.kind = "number" /\ num.n /= 0 THEN num.n ELSE 0

\* ordinalize without the check of the last two digits
ordinalizeLastDigitOnly(num) ==
  LET n == OrZero(num)
      d == Rem(n, 10)
  IN  IF d = 1 THEN NumberToString(n) \o "st"
      ELSE IF d = 2 THEN NumberToString(n) \o "nd"
      ELSE IF d = 3 THEN NumberToString(n) \o "rd"
      ELSE NumberToString(n) \o "th"

ordinalize(num) ==
  LET n == OrZero(num)
      v == Rem(n, 100)
      d == Rem(n, 10)
  IN  IF v >= 11 /\ v <= 13 THEN NumberToString(n) \o "th"
      ELSE IF d = 1 THEN NumberToString(n) \o "st"
      ELSE IF d = 2 THEN NumberToString(n) \o "nd"
      ELSE IF d = 3 THEN NumberToString(n) \o "rd"
      ELSE NumberToString(n) \o "th"

Returned1(fn, value) == [op |-> fn, val |-> [pc |-> "return", value |-> value]]

CallOrdinalize ==
  /\ arg.fn = "ordinalize"
  /\ ret.op = "none"
  /\ ret' = Returned1("ordinalize", ordinalize(arg.num))
  /\ UNCHANGED <<arg, ctor, dur>>
  /\ UNCHANGED sleepVars

\* isNone(thing): thing === null || thing === undefined
isNone(thing) == thing.kind = "null" \/ thing.kind = "undefined"

\* isEmpty(thing) of null, undefined or an array
isEmpty(thing) ==
  IF isNone(thing) THEN TRUE ELSE Len(thing.items) = 0

\* Math.max(...items): -Infinity for no items, NaN when an item is NaN,
\* +0 is larger than -0
RECURSIVE MathMax(_)
MathMax(items) ==
  IF Len(items) = 0 THEN Inf(1)
  ELSE LET x    == items[Len(items)]
           rest == MathMax(SubSeq(items, 1, Len(items) - 1))
       IN  IF x.k = "nan" \/ rest.k = "nan" THEN NaN
           ELSE IF FLt(rest, x) THEN x
           ELSE IF IsZero(x) /\ IsZero(rest) /\ x.s = 0 THEN x
           ELSE rest

\* Math.min(...items): Infinity for no items, -0 is smaller than +0
RECURSIVE MathMin(_)
MathMin(items) ==
  IF Len(items) = 0 THEN Inf(0)
  ELSE LET x    == items[Len(items)]
           rest == MathMin(SubSeq(items, 1, Len(items) - 1))
       IN  IF x.k = "nan" \/ rest.k = "nan" THEN NaN
           ELSE IF FLt(x, rest) THEN x
           ELSE IF IsZero(x) /\ IsZero(rest) /\ x.s = 1 THEN x
           ELSE rest

MaxAbs == 2

JsArray(items) == [kind |-> "array", items |-> items]

NumberLists ==
  {JsArray(a) : a \in SeqsUpTo({FromInt(n) : n \in (-MaxAbs)..MaxAbs}, MaxLen)}
    \cup {JsNull, JsUndefined}

MaxMinInputs == {[fn |-> f, nums |-> l] : f \in {"max", "min"}, l \in NumberLists}

\* max as Math.max(0, ...nums)
maxFromZero(nums) ==
  IF isNone(nums) THEN Zero(0) ELSE MathMax(<<Zero(0)>> \o nums.items)

max(nums) == IF isEmpty(nums) THEN Zero(0) ELSE MathMax(nums.items)

\* min as Math.min(0, ...nums)
minFromZero(nums) ==
  IF isNone(nums) THEN Zero(0) ELSE MathMin(<<Zero(0)>> \o nums.items)

min(nums) == IF isEmpty(nums) THEN Zero(0) ELSE MathMin(nums.items)

CallMax ==
  /\ arg.fn = "max"
  /\ ret.op = "none"
  /\ ret' = Returned1("max", max(arg.nums))
  /\ UNCHANGED <<arg, ctor, dur>>
  /\ UNCHANGED sleepVars

CallMin ==
  /\ arg.fn = "min"
  /\ ret.op = "none"
  /\ ret' = Returned1("min", min(arg.nums))
  /\ UNCHANGED <<arg, ctor, dur>>
  /\ UNCHANGED sleepVars

RECURSIVE BigToInt(_)
BigToInt(a) == IF a = <<>> THEN 0 ELSE a[1] + Base * BigToInt(Tail(a))

\* Math.floor of a finite number whose whole part is a small integer
MathFloor(x) ==
  LET whole == IF x.q >= 0 THEN BigShl(x.m, x.q) ELSE BigShr(x.m, -x.q)
  IN  IF x.s = 0 THEN BigToInt(whole)
      ELSE IF IsInteger(x) THEN -BigToInt(whole)
      ELSE -(BigToInt(whole) + 1)

\* Math.ceil of a finite number whose whole part is a small integer
MathCeil(x) == -MathFloor(FNeg(x))

MaxRange == 3

\* the largest number below 1, 1 - 2^-53
BelowOne == Round(0, BigSub(BigShl(BigOne, Prec), BigOne), -Prec)

\* what Math.random() can return: numbers in [0, 1)
RandomSources ==
  {Zero(0), BelowOne, Fin(0, BigShl(BigOne, Prec - 1), MinExp),
   FDiv(FromInt(1), FromInt(2)), FDiv(FromInt(1), FromInt(3)),
   FDiv(FromInt(9999999), FromInt(10000000))}

RandomInputs ==
  {[fn |-> "random", start |-> a, end |-> b, source |-> u] :
     a \in (-MaxRange)..MaxRange, b \in (-MaxRange)..MaxRange,
     u \in RandomSources}

\* random with Math.ceil for Math.floor
randomCeil(start, end, source) ==
  MathCeil(FMul(source, FromInt(end - start))) + start

\* random(start, end) when Math.random() returns source; start and end are
\* small integers, whose differences and sums are exact
random(start, end, source) ==
  MathFloor(FMul(source, FromInt(end - start))) + start

CallRandom ==
  /\ arg.fn = "random"
  /\ ret.op = "none"
  /\ ret' = Returned1("random", random(arg.start, arg.end, arg.source))
  /\ UNCHANGED <<arg, ctor, dur>>
  /\ UNCHANGED sleepVars

UtilInit ==
  /\ arg \in ChunkInputs \cup OrdinalizeInputs \cup MaxMinInputs \cup RandomInputs
  /\ ConvIdle
  /\ SleepIdle

UtilNext ==
  \/ CallChunk
  \/ ChunkLoop
  \/ ChunkReturn
  \/ CallOrdinalize
  \/ CallMax
  \/ CallMin
  \/ CallRandom

UtilSpec == UtilInit /\ [][UtilNext]_vars

\* the calls run to completion: a loop iteration that can run does run
UtilLive == UtilSpec /\ WF_vars(ChunkLoop) /\ WF_vars(ChunkReturn)

(***************************************************************************)
(* Claims about the utility functions.                                     *)
(***************************************************************************)
RECURSIVE Flatten(_)
Flatten(chunks) ==
  IF chunks = <<>> THEN <<>> ELSE Head(chunks) \o Flatten(Tail(chunks))

ChunkReturned == ret.op = "chunk" /\ ret.val.pc = "return"

CeilDiv(a, b) == (a + b - 1) \div b

\* C16: for an integer size > 0, chunk(arr, size) returns consecutive chunks
\* whose concatenation in order is arr: there are ceil(arr.length / size) of
\* them, every chunk but the last has exactly size elements, the last has
\* between 1 and size, an empty arr gives no chunks, and arr is unchanged.
C16_ChunkPartitionsInOrder ==
  /\ [](ChunkReturned =>
          LET result == ret.val.result
              n      == Len(result)
          IN  /\ arg.size > 0
              /\ Flatten(result) = arg.arr
              /\ n = CeilDiv(Len(arg.arr), arg.size)
              /\ \A k \in 1..(n - 1) : Len(result[k]) = arg.size
              /\ n > 0 => Len(result[n]) \in 1..arg.size
              /\ arg.arr = <<>> => result = <<>>)
  /\ [][arg.fn = "chunk" => arg' = arg]_vars

C16_Witness ==
  /\ ChunkReturned
  /\ arg.arr = <<"a", "b", "a">>
  /\ arg.size = 2
  /\ ret.val.result = << <<"a", "b">>, <<"a">> >>

ChunkThrown == ret.op = "chunk" /\ ret.val.pc = "throw"

\* C17: chunk(arr, size) raises exactly the error "chunk size must be > 0"
\* for every size <= 0, whatever arr is, the empty array included, and before
\* any chunk is produced; for size > 0 it never raises, and its loop ends
\* with the return of the result.
C17_ChunkRejectsNonPositiveSize ==
  /\ [](ret.op = "chunk" =>
          /\ ChunkThrown <=> arg.size <= 0
          /\ ChunkThrown =>
               /\ ret.val.error = "chunk size must be > 0"
               /\ ret.val.result = <<>>
          /\ ~ChunkThrown => ret.val.error = "none")
  /\ [][ChunkThrown => ret' = ret]_vars
  /\ ((ret.op = "chunk" /\ arg.size > 0) ~> ChunkReturned)

C17_Witness ==
  /\ ChunkThrown
  /\ arg.arr = <<>>
  /\ arg.size = 0
  /\ ret.val.error = "chunk size must be > 0"

DigitChars == <<"0", "1", "2", "3", "4", "5", "6", "7", "8", "9">>

\* the decimal digits of a non-negative integer
RECURSIVE Decimal(_)
Decimal(n) ==
  IF n < 10 THEN DigitChars[n + 1]
  ELSE Decimal(n \div 10) \o DigitChars[(n % 10) + 1]

OrdinalSuffix(n) ==
  IF n % 100 \in {11, 12, 13} THEN "th"
  ELSE IF n % 10 = 1 THEN "st"
  ELSE IF n % 10 = 2 THEN "nd"
  ELSE IF n % 10 = 3 THEN "rd"
  ELSE "th"

OrdinalizeReturned == ret.op = "ordinalize" /\ ret.val.pc = "return"

\* C18: for a non-negative integer n, ordinalize(n) is the decimal digits of
\* n followed by "th" when n mod 100 is 11, 12 or 13, otherwise by "st", "nd"
\* or "rd" when the last digit is 1, 2 or 3, otherwise by "th"; null and
\* undefined are treated as 0 and give "0th".
C18_OrdinalizeSuffix ==
  OrdinalizeReturned =>
    /\ arg.num.kind = "number" =>
         ret.val.value = Decimal(arg.num.n) \o OrdinalSuffix(arg.num.n)
    /\ arg.num.kind \in {"null", "undefined"} => ret.val.value = "0th"

C18_Witness ==
  /\ OrdinalizeReturned
  /\ arg.num = JsNumber(112)
  /\ ret.val.value = "112th"

NoNumbers(nums) == nums.kind \in {"null", "undefined"} \/ nums.items = <<>>

\* C19: max(nums) is 0 for an empty, null or undefined list and otherwise an
\* element of nums that no element exceeds; min(nums) is 0 for an empty list
\* and otherwise an element that exceeds no element; so for a list of
\* negative numbers the result is one of them, not the default 0.
C19_MaxMinAreExtremeElements ==
  /\ (ret.op = "max" /\ ret.val.pc = "return") =>
       IF NoNumbers(arg.nums) THEN ret.val.value = Zero(0)
       ELSE /\ \E k \in 1..Len(arg.nums.items) : arg.nums.items[k] = ret.val.value
            /\ \A k \in 1..Len(arg.nums.items) :
                 ~FLt(ret.val.value, arg.nums.items[k])
  /\ (ret.op = "min" /\ ret.val.pc = "return") =>
       IF NoNumbers(arg.nums) THEN ret.val.value = Zero(0)
       ELSE /\ \E k \in 1..Len(arg.nums.items) : arg.nums.items[k] = ret.val.value
            /\ \A k \in 1..Len(arg.nums.items) :
                 ~FLt(arg.nums.items[k], ret.val.value)

C19_Witness ==
  /\ ret.op = "max"
  /\ ret.val.pc = "return"
  /\ arg.nums = JsArray(<<FromInt(-1), FromInt(-2), FromInt(-2)>>)
  /\ ret.val.value = FromInt(-1)

RandomReturned == ret.op = "random" /\ ret.val.pc = "return"

\* C20: for integers start < end and every value of Math.random() in [0, 1),
\* random(start, end) is an integer r with start <= r < end; the source value
\* 0 gives start and the source value just below 1 gives end - 1.
C20_RandomInHalfOpenRange ==
  (RandomReturned /\ arg.start < arg.end) =>
    /\ ret.val.value \in Int
    /\ arg.start <= ret.val.value
    /\ ret.val.value < arg.end
    /\ arg.source = Zero(0) => ret.val.value = arg.start
    /\ arg.source = BelowOne => ret.val.value = arg.end - 1

C20_Witness ==
  /\ RandomReturned
  /\ arg.start = -MaxRange
  /\ arg.end = MaxRange
  /\ arg.source = BelowOne
  /\ ret.val.value = MaxRange - 1

(***************************************************************************)
(* The list helpers of core.ts, the parity predicates of numbers.ts.  A    *)
(* Set is the sequence of its members in insertion order.                  *)
(***************************************************************************)
Has(items, x) == \E k \in 1..Len(items) : items[k] = x

\* new Set(items): a member is added at its first occurrence
RECURSIVE NewSet(_)
NewSet(items) ==
  IF items = <<>> THEN <<>>
  ELSE LET before == NewSet(SubSeq(items, 1, Len(items) - 1))
           x      == items[Len(items)]
       IN  IF Has(before, x) THEN before ELSE Append(before, x)

\* set.delete(x)
SetDelete(set, x) == SelectSeq(set, LAMBDA y : y /= x)

RECURSIVE DeleteAll(_, _)
DeleteAll(set, items) ==
  IF items = <<>> THEN set
  ELSE DeleteAll(SetDelete(set, Head(items)), Tail(items))

MaxItems == 2

MaxLists == 3

\* the argument lists of a call: up to MaxLists arrays of up to MaxItems items
ListsInputs == SeqsUpTo(SeqsUpTo(Elements, MaxItems), MaxLists)

\* union as lists.flat()
unionWithDuplicates(lists) == Flatten(lists)

\* [...new Set(lists.flat())]
union(lists) == NewSet(Flatten(lists))

CallUnion ==
  /\ arg.fn = "union"
  /\ ret.op = "none"
  /\ ret' = Returned1("union", union(arg.lists))
  /\ UNCHANGED <<arg, ctor, dur>>
  /\ UNCHANGED sleepVars

\* difference as a filter of the first list
differenceKeepingDuplicates(lists) ==
  IF lists = <<>> THEN <<>>
  ELSE SelectSeq(lists[1], LAMBDA x : ~Has(Flatten(Tail(lists)), x))

\* new Set(lists[0]), then set.delete of every item of every other list
difference(lists) ==
  IF lists = <<>> THEN <<>>
  ELSE DeleteAll(NewSet(lists[1]), Flatten(Tail(lists)))

CallDifference ==
  /\ arg.fn = "difference"
  /\ ret.op = "none"
  /\ ret' = Returned1("difference", difference(arg.lists))
  /\ UNCHANGED <<arg, ctor, dur>>
  /\ UNCHANGED sleepVars

\* lists.reduce(...) without an initial value, from the first list on
RECURSIVE ReduceFilter(_, _)
ReduceFilter(acc, rest) ==
  IF rest = <<>> THEN acc
  ELSE ReduceFilter(SelectSeq(acc, LAMBDA x : Has(NewSet(Head(rest)), x)),
                    Tail(rest))

\* intersection through a Set of the first list
intersectionDistinct(lists) ==
  IF Len(lists) = 0 THEN <<>>
  ELSE ReduceFilter(NewSet(lists[1]), Tail(lists))

intersection(lists) ==
  IF Len(lists) = 0 THEN <<>>
  ELSE ReduceFilter(lists[1], Tail(lists))

\* the array returned is the caller's first list itself when reduce has one
\* element and never calls back
CallIntersection ==
  /\ arg.fn = "intersection"
  /\ ret.op = "none"
  /\ ret' = [op |-> "intersection",
             val |-> [pc |-> "return", value |-> intersection(arg.lists),
                      ref |-> IF Len(arg.lists) = 1 THEN "lists[0]" ELSE "new"]]
  /\ UNCHANGED <<arg, ctor, dur>>
  /\ UNCHANGED sleepVars

MaxInt == 5

ParityInputs ==
  {[fn |-> f, num |-> x] :
     f \in {"isEven", "isOdd"},
     x \in {JsNumber(n) : n \in (-MaxInt)..MaxInt} \cup {JsNull, JsUndefined}}

\* isEven with the test written % 2 !== 1
isEvenNotOne(num) == Rem(OrZero(num), 2) /= 1

\* (num || 0) % 2 === 0
isEven(num) == Rem(OrZero(num), 2) = 0

isOdd(num) == ~isEven(num)

CallIsEven ==
  /\ arg.fn = "isEven"
  /\ ret.op = "none"
  /\ ret' = Returned1("isEven", isEven(arg.num))
  /\ UNCHANGED <<arg, ctor, dur>>
  /\ UNCHANGED sleepVars

CallIsOdd ==
  /\ arg.fn = "isOdd"
  /\ ret.op = "none"
  /\ ret' = Returned1("isOdd", isOdd(arg.num))
  /\ UNCHANGED <<arg, ctor, dur>>
  /\ UNCHANGED sleepVars

\* Array.prototype.reverse on the items
RECURSIVE Reversed(_)
Reversed(items) ==
  IF items = <<>> THEN <<>> ELSE Append(Reversed(Tail(items)), Head(items))

\* a string is the sequence of its code units, which split("") takes apart
\* and join("") puts together
JsString(units) == [kind |-> "string", items |-> units]

JsSetOf(members) == [kind |-> "set", items |-> members]

ReverseInputs ==
  {[fn |-> "reverse", thing |-> t] :
     t \in {JsArray(q) : q \in SeqsUpTo(Elements, MaxLen)}
             \cup {JsString(q) : q \in SeqsUpTo(Elements, MaxLen)}
             \cup {JsSetOf(NewSet(q)) : q \in SeqsUpTo(Elements, MaxLen)}}

\* the outcome of a call: the value returned, whether it is the argument
\* object itself, and the argument object after the call
ReverseOutcome(value, ref, thing) == [value |-> value, ref |-> ref, thing |-> thing]

\* reverse with the array copied first, [...thing].reverse()
reverseCopying(thing) ==
  IF thing.kind = "string"
  THEN ReverseOutcome(JsString(Reversed(thing.items)), "new", thing)
  ELSE IF thing.kind = "set"
  THEN ReverseOutcome(JsSetOf(NewSet(Reversed(thing.items))), "new", thing)
  ELSE ReverseOutcome(JsArray(Reversed(thing.items)), "new", thing)

reverse(thing) ==
  IF thing.kind = "string"
  THEN ReverseOutcome(JsString(Reversed(thing.items)), "new", thing)
  ELSE IF thing.kind = "set"
  THEN ReverseOutcome(JsSetOf(NewSet(Reversed(thing.items))), "new", thing)
  ELSE ReverseOutcome(JsArray(Reversed(thing.items)), "thing",
                      JsArray(Reversed(thing.items)))

ReverseFrame(out, given, calls) ==
  [op |-> "reverse",
   val |-> [pc |-> "return", value |-> out.value, ref |-> out.ref,
            given |-> given, calls |-> calls]]

\* reverse(thing)
CallReverse ==
  /\ arg.fn = "reverse"
  /\ ret.op = "none"
  /\ LET out == reverse(arg.thing)
     IN  /\ arg' = [arg EXCEPT !.thing = out.thing]
         /\ ret' = ReverseFrame(out, arg.thing, 1)
  /\ UNCHANGED <<ctor, dur>>
  /\ UNCHANGED sleepVars

\* reverse(reverse(thing)): the value the first call returned is reversed;
\* when that value is the caller's array, the caller's array changes again
CallReverseAgain ==
  /\ ret.op = "reverse"
  /\ ret.val.calls = 1
  /\ LET out == reverse(ret.val.value)
     IN  /\ arg' = IF ret.val.ref = "thing"
                   THEN [arg EXCEPT !.thing = out.thing]
                   ELSE arg
         /\ ret' = ReverseFrame(
                     [out EXCEPT !.ref = IF ret.val.ref = "thing"
                                         THEN out.ref ELSE "new"],
                     ret.val.given, 2)
  /\ UNCHANGED <<ctor, dur>>
  /\ UNCHANGED sleepVars

HelperInit ==
  /\ arg \in {[fn |-> f, lists |-> l] :
                f \in {"union", "difference", "intersection"},
                l \in ListsInputs}
              \cup ParityInputs \cup ReverseInputs
  /\ ConvIdle
  /\ SleepIdle

HelperNext ==
  \/ CallUnion
  \/ CallDifference
  \/ CallIntersection
  \/ CallIsEven
  \/ CallIsOdd
  \/ CallReverse
  \/ CallReverseAgain

HelperSpec == HelperInit /\ [][HelperNext]_vars

(***************************************************************************)
(* Claims about the list helpers and the parity predicates.                *)
(***************************************************************************)
Members(items) == {items[k] : k \in 1..Len(items)}

Distinct(items) ==
  \A i \in 1..Len(items) : \A j \in 1..Len(items) : items[i] = items[j] => i = j

FirstIndex(items, x) ==
  CHOOSE k \in 1..Len(items) :
    items[k] = x /\ \A j \in 1..(k - 1) : items[j] /= x

\* the positions of q follow the first occurrences of its values in items
InFirstOccurrenceOrder(q, items) ==
  \A i \in 1..Len(q) : \A j \in 1..Len(q) :
    i < j => FirstIndex(items, q[i]) < FirstIndex(items, q[j])

\* C21: union(...lists) returns every value that occurs in some input list
\* exactly once and nothing else, in the order of first occurrence across
\* the lists taken left to right.
C21_UnionDistinctInFirstOccurrenceOrder ==
  (ret.op = "union" /\ ret.val.pc = "return") =>
    LET all == Flatten(arg.lists)
    IN  /\ Members(ret.val.value) = Members(all)
        /\ Distinct(ret.val.value)
        /\ InFirstOccurrenceOrder(ret.val.value, all)

C21_Witness ==
  /\ ret.op = "union"
  /\ ret.val.pc = "return"
  /\ arg.lists = << <<"b">>, <<"a", "b">> >>
  /\ ret.val.value = <<"b", "a">>

FirstList(lists) == IF lists = <<>> THEN <<>> ELSE lists[1]

OtherLists(lists) == IF lists = <<>> THEN <<>> ELSE Tail(lists)

\* C22: difference(first, ...others) returns exactly the distinct values of
\* the first list that occur in none of the other lists, in the order of
\* their first occurrence in the first list, and leaves every input list
\* unchanged.
C22_DifferenceOfFirstList ==
  /\ []((ret.op = "difference" /\ ret.val.pc = "return") =>
          LET first  == FirstList(arg.lists)
              others == Flatten(OtherLists(arg.lists))
          IN  /\ Members(ret.val.value) = Members(first) \ Members(others)
              /\ Distinct(ret.val.value)
              /\ InFirstOccurrenceOrder(ret.val.value, first))
  /\ [][arg.fn = "difference" => arg' = arg]_vars

C22_Witness ==
  /\ ret.op = "difference"
  /\ ret.val.pc = "return"
  /\ arg.lists = << <<"a", "a">>, <<"b">>, <<>> >>
  /\ ret.val.value = <<"a">>

InEveryList(x, lists) == \A k \in 1..Len(lists) : x \in Members(lists[k])

\* C26: intersection(first, ...others) is the first list filtered to the
\* values that occur in every other list, in the first list's order and with
\* its duplicates; a value is in the result exactly when it is in every
\* input list; zero lists give the empty list and a single list is returned
\* as it is.
C26_IntersectionFiltersFirstList ==
  (ret.op = "intersection" /\ ret.val.pc = "return") =>
    /\ ret.val.value =
         SelectSeq(FirstList(arg.lists),
                   LAMBDA x : InEveryList(x, OtherLists(arg.lists)))
    /\ \A x \in Elements :
         x \in Members(ret.val.value) <=>
           (arg.lists /= <<>> /\ InEveryList(x, arg.lists))
    /\ arg.lists = <<>> => ret.val.value = <<>>
    /\ Len(arg.lists) = 1 =>
         ret.val.value = arg.lists[1] /\ ret.val.ref = "lists[0]"

C26_Witness ==
  /\ ret.op = "intersection"
  /\ ret.val.pc = "return"
  /\ arg.lists = << <<"a", "a">>, <<"a">>, <<"b", "a">> >>
  /\ ret.val.value = <<"a", "a">>

ReverseReturned(calls) ==
  ret.op = "reverse" /\ ret.val.pc = "return" /\ ret.val.calls = calls

LastToFirst(q, items) ==
  /\ Len(q) = Len(items)
  /\ \A k \in 1..Len(items) : q[k] = items[Len(items) + 1 - k]

\* C27: reverse of an array reverses the caller's array in place and returns
\* that same array; reverse of a Set or of a string returns a new value and
\* leaves its argument as it was; in all three cases reversing twice gives
\* back the original order.
C27_ReverseInPlaceOnlyForArrays ==
  /\ ReverseReturned(1) =>
       /\ ret.val.value.kind = ret.val.given.kind
       /\ LastToFirst(ret.val.value.items, ret.val.given.items)
       /\ ret.val.given.kind = "array" =>
            ret.val.ref = "thing" /\ arg.thing = ret.val.value
       /\ ret.val.given.kind \in {"set", "string"} =>
            ret.val.ref = "new" /\ arg.thing = ret.val.given
  /\ ReverseReturned(2) =>
       /\ ret.val.value = ret.val.given
       /\ ret.val.given.kind = "array" => arg.thing = ret.val.given
       /\ ret.val.given.kind \in {"set", "string"} => arg.thing = ret.val.given

C27_Witness ==
  /\ ReverseReturned(1)
  /\ ret.val.given = JsArray(<<"a", "b", "b">>)
  /\ arg.thing = JsArray(<<"b", "b", "a">>)
  /\ ret.val.ref = "thing"

(***************************************************************************)
(* A claim about delays that are not positive, checked under SleepLive.    *)
(***************************************************************************)
NotPositive(x) == x.k /= "nan" /\ ~FLt(Zero(0), x)

\* C25: a delay whose duration is zero or negative is still pending when the
\* call of sleep returns (it is never resolved inside the call), it resolves
\* only once the host timer has fired, it never fails and it does not stay
\* pending forever.
C25_NonPositiveDelayResolvesThroughTimer ==
  /\ [][\A id \in DOMAIN delays' :
          (id \notin DOMAIN delays /\ NotPositive(toMilliseconds(delays'[id].this)))
            => /\ delays'[id].inner = "pending"
               /\ ReturnedOf(delays'[id]) = "pending"
               /\ delays'[id].resumed = 0
               /\ timers'[delays'[id].timer].state = "armed"
               /\ timers'[delays'[id].timer].fired = 0]_vars
  /\ [](\A id \in DOMAIN delays :
          NotPositive(Requested(id)) =>
            /\ Unresolved(id) \/ TimerOf(id).fired = 1
            /\ delays[id].inner \in {"pending", "fulfilled"}
            /\ Returned(id) \in {"pending", "fulfilled"})
  /\ \A id \in 1..MaxDelays :
       (id \in DOMAIN delays /\ NotPositive(Requested(id))) ~>
         (/\ id \in DOMAIN delays
          /\ Returned(id) = "fulfilled"
          /\ delays[id].resumed = 1)

C25_Witness ==
  \E id \in DOMAIN delays :
    /\ Requested(id) = FromInt(-1)
    /\ TimerOf(id).fired = 1
    /\ Returned(id) = "fulfilled"
    /\ delays[id].resumed = 1
    /\ clock = delays[id].start

(***************************************************************************)
(* dates.ts.  A Date holds a time value, kept as the day number since      *)
(* 1970-01-01 and the milliseconds within that day; its local-time getters *)
(* and setters are those of a time zone without offset, in the proleptic   *)
(* Gregorian calendar.                                                     *)
(***************************************************************************)
MsPerDay == 86400000

NewDate(day, ms) == [day |-> day, ms |-> ms]

\* the day number of the first day of year y
DayFromYear(y) ==
  365 * (y - 1970) + ((y - 1969) \div 4) - ((y - 1901) \div 100)
    + ((y - 1601) \div 400)

IsLeapYear(y) == (y % 4 = 0 /\ y % 100 /= 0) \/ y % 400 = 0

DaysInMonth(y, m) ==
  IF m = 1 THEN (IF IsLeapYear(y) THEN 29 ELSE 28)
  ELSE IF m \in {3, 5, 8, 10} THEN 30
  ELSE 31

\* days of year y before its month m (0 is January)
RECURSIVE DaysBeforeMonth(_, _)
DaysBeforeMonth(y, m) ==
  IF m = 0 THEN 0 ELSE DaysBeforeMonth(y, m - 1) + DaysInMonth(y, m - 1)

\* the year that holds day number `day`
RECURSIVE YearFromDayNear(_, _)
YearFromDayNear(day, y) ==
  IF day < DayFromYear(y) THEN YearFromDayNear(day, y - 1)
  ELSE IF day >= DayFromYear(y + 1) THEN YearFromDayNear(day, y + 1)
  ELSE y

getFullYear(date) == YearFromDayNear(date.day, 1970 + (date.day \div 365))

DayWithinYear(date) == date.day - DayFromYear(getFullYear(date))

RECURSIVE MonthFromDayWithinYear(_, _, _)
MonthFromDayWithinYear(y, n, m) ==
  IF n < DaysBeforeMonth(y, m + 1) THEN m
  ELSE MonthFromDayWithinYear(y, n, m + 1)

\* 0 is January
getMonth(date) == MonthFromDayWithinYear(getFullYear(date), DayWithinYear(date), 0)

\* the day of the month, from 1
getDate(date) ==
  DayWithinYear(date) - DaysBeforeMonth(getFullYear(date), getMonth(date)) + 1

\* MakeDay(year, month, date): month and date may lie outside their ranges
MakeDay(year, month, dt) ==
  LET ym == year + (month \div 12)
      mn == month % 12
  IN  DayFromYear(ym) + DaysBeforeMonth(ym, mn) + dt - 1

setMonth(date, month) ==
  NewDate(MakeDay(getFullYear(date), month, getDate(date)), date.ms)

setDate(date, dt) ==
  NewDate(MakeDay(getFullYear(date), getMonth(date), dt), date.ms)

\* setHours(0, 0, 0, 0)
setHoursToMidnight(date) == NewDate(date.day, 0)

\* date < other, date >= other: the comparison of the time values
DateLt(a, b) == a.day < b.day \/ (a.day = b.day /\ a.ms < b.ms)

IntAbs(n) == IF n < 0 THEN -n ELSE n

MaxYears == 2

CalendarYears == 2023..(2023 + MaxYears)

HalfDay == MsPerDay \div 2

\* the first, middle and last days of the months of the calendar years (a
\* day past the end of a month is that day of the next month)
CalendarDates ==
  {NewDate(MakeDay(y, m, d), 0) :
     y \in CalendarYears, m \in 0..11, d \in {1, 15, 28, 29, 30, 31}}

YearsBetweenInputs ==
  {[fn |-> "yearsBetween", start |-> a, end |-> b] :
     a \in {NewDate(MakeDay(y, m, d), t) :
              y \in CalendarYears, m \in {1, 7}, d \in {1, 28, 29}, t \in {0}},
     b \in {NewDate(MakeDay(y, m, d), t) :
              y \in CalendarYears, m \in {1, 6, 7}, d \in {1, 28, 31}, t \in {0, HalfDay}}}

\* yearsBetween as the difference of the calendar years
yearsBetweenCalendarYears(start, end) ==
  IntAbs(getFullYear(end) - getFullYear(start))

yearsBetween(start, end) ==
  LET yrs          == getFullYear(end) - getFullYear(start)
      hasDayPassed == \/ getMonth(end) > getMonth(start)
                      \/ /\ getMonth(end) = getMonth(start)
                         /\ getDate(end) >= getDate(start)
  IN  IF yrs = 0 THEN 0
      ELSE IF ~hasDayPassed
           THEN IF yrs < 0 THEN IntAbs(yrs) ELSE IntAbs(yrs - 1)
           ELSE IntAbs(yrs)

CallYearsBetween ==
  /\ arg.fn = "yearsBetween"
  /\ ret.op = "none"
  /\ ret' = Returned1("yearsBetween", yearsBetween(arg.start, arg.end))
  /\ UNCHANGED <<arg, ctor, dur>>
  /\ UNCHANGED sleepVars

MaxDays == 2

\* the days the clock and the dates lie around: the last day of a February
\* and the last day of a year
PivotDays == {MakeDay(2024, 1, 29), MakeDay(2023, 11, 31)}

TimesOfDay == {0, 1, HalfDay, MsPerDay - 1}

InstantsNear(day) ==
  {NewDate(day + k, t) : k \in (-MaxDays)..MaxDays, t \in TimesOfDay}

DaysBetweenInputs ==
  {[fn |-> "daysBetween", start |-> a, end |-> b] :
     a \in {NewDate(MakeDay(2024, 1, 29), t) : t \in {0, HalfDay}},
     b \in InstantsNear(MakeDay(2024, 1, 29))}
    \cup
  {[fn |-> "daysBetween", start |-> a, end |-> b] :
     a \in InstantsNear(MakeDay(2024, 1, 29)),
     b \in {NewDate(MakeDay(2024, 1, 29), t) : t \in {0, HalfDay}}}

\* end.getTime() - start.getTime(), for instants less than 2^31 ms apart
TimeDifference(start, end) ==
  (end.day - start.day) * MsPerDay + (end.ms - start.ms)

daysBetween(start, end) ==
  IntAbs(MathFloor(FDiv(FromInt(TimeDifference(start, end)),
                        toMilliseconds(DurationDays(FromInt(1))))))

CallDaysBetween ==
  /\ arg.fn = "daysBetween"
  /\ ret.op = "none"
  /\ ret' = Returned1("daysBetween", daysBetween(arg.start, arg.end))
  /\ UNCHANGED <<arg, ctor, dur>>
  /\ UNCHANGED sleepVars

MaxMonths == 13

MaxSteps == 5

AddMonthsInputs ==
  {[fn |-> "addMonths", date |-> dt, months |-> n] :
     dt \in CalendarDates, n \in (-MaxMonths)..MaxMonths}

AddMonthsFrame(pc, result, targetMonth, steps) ==
  [op |-> "addMonths",
   val |-> [pc |-> pc, result |-> result, targetMonth |-> targetMonth,
            steps |-> steps]]

\* (targetMonth % 12 + 12) % 12
WrappedMonth(targetMonth) == Rem(Rem(targetMonth, 12) + 12, 12)

\* the loop test with targetMonth % 12 alone
LoopsOnRemainder(frame) ==
  getMonth(frame.result) /= Rem(frame.targetMonth, 12)

\* result.getMonth() !== ((targetMonth % 12 + 12) % 12)
Loops(frame) == getMonth(frame.result) /= WrappedMonth(frame.targetMonth)

\* addMonths(date, months) up to its loop: the copy, then setMonth
CallAddMonths ==
  /\ arg.fn = "addMonths"
  /\ ret.op = "none"
  /\ LET targetMonth == getMonth(arg.date) + arg.months
     IN  ret' = AddMonthsFrame("loop", setMonth(arg.date, targetMonth),
                               targetMonth, 0)
  /\ UNCHANGED <<arg, ctor, dur>>
  /\ UNCHANGED sleepVars

\* one iteration: result.setDate(result.getDate() - 1)
AddMonthsLoop ==
  /\ ret.op = "addMonths"
  /\ ret.val.pc = "loop"
  /\ ret.val.steps < MaxSteps
  /\ Loops(ret.val)
  /\ ret' = AddMonthsFrame("loop",
              setDate(ret.val.result, getDate(ret.val.result) - 1),
              ret.val.targetMonth, ret.val.steps + 1)
  /\ UNCHANGED <<arg, ctor, dur>>
  /\ UNCHANGED sleepVars

\* the loop test fails: return result
AddMonthsReturn ==
  /\ ret.op = "addMonths"
  /\ ret.val.pc = "loop"
  /\ ~Loops(ret.val)
  /\ ret' = AddMonthsFrame("return", ret.val.result, ret.val.targetMonth,
                           ret.val.steps)
  /\ UNCHANGED <<arg, ctor, dur>>
  /\ UNCHANGED sleepVars

\* now() is arg.now; today(): the copy of now set to midnight
today(now) == setHoursToMidnight(now)

addDays(date, n) == setDate(date, getDate(date) + n)

tomorrow(now) == addDays(setHoursToMidnight(now), 1)

isInPast(date, now) == DateLt(date, today(now))

\* isInFuture as date > now()
isInFutureAfterNow(date, now) == DateLt(now, date)

isInFuture(date, now) == ~DateLt(date, tomorrow(now))

isToday(date, now) == ~isInFuture(date, now) /\ ~isInPast(date, now)

DayPredicateInputs ==
  {[fn |-> f, date |-> dt, now |-> n] :
     f \in {"isInPast", "isInFuture", "isToday"},
     dt \in UNION {InstantsNear(p) : p \in PivotDays},
     n \in {NewDate(p, t) : p \in PivotDays, t \in TimesOfDay}}

CallIsInPast ==
  /\ arg.fn = "isInPast"
  /\ ret.op = "none"
  /\ ret' = Returned1("isInPast", isInPast(arg.date, arg.now))
  /\ UNCHANGED <<arg, ctor, dur>>
  /\ UNCHANGED sleepVars

CallIsInFuture ==
  /\ arg.fn = "isInFuture"
  /\ ret.op = "none"
  /\ ret' = Returned1("isInFuture", isInFuture(arg.date, arg.now))
  /\ UNCHANGED <<arg, ctor, dur>>
  /\ UNCHANGED sleepVars

CallIsToday ==
  /\ arg.fn = "isToday"
  /\ ret.op = "none"
  /\ ret' = Returned1("isToday", isToday(arg.date, arg.now))
  /\ UNCHANGED <<arg, ctor, dur>>
  /\ UNCHANGED sleepVars

DateInit ==
  /\ arg \in YearsBetweenInputs \cup DaysBetweenInputs \cup AddMonthsInputs
               \cup DayPredicateInputs
  /\ ConvIdle
  /\ SleepIdle

DateNext ==
  \/ CallYearsBetween
  \/ CallDaysBetween
  \/ CallAddMonths
  \/ AddMonthsLoop
  \/ AddMonthsReturn
  \/ CallIsInPast
  \/ CallIsInFuture
  \/ CallIsToday

DateSpec == DateInit /\ [][DateNext]_vars

(***************************************************************************)
(* Claims about dates.ts.                                                  *)
(***************************************************************************)
\* (month, day) of a is earlier in the year than (month, day) of b
EarlierInYear(a, b) ==
  \/ getMonth(a) < getMonth(b)
  \/ getMonth(a) = getMonth(b) /\ getDate(a) < getDate(b)

\* C23: for start on or before end, yearsBetween(start, end) is the number of
\* complete years: the difference of the calendar years, less one when the
\* (month, day) of end is earlier than the (month, day) of start.
C23_YearsBetweenCountsCompleteYears ==
  (ret.op = "yearsBetween" /\ ret.val.pc = "return"
     /\ ~DateLt(arg.end, arg.start)) =>
    ret.val.value =
      (getFullYear(arg.end) - getFullYear(arg.start))
        - (IF EarlierInYear(arg.end, arg.start) THEN 1 ELSE 0)

C23_Witness ==
  /\ ret.op = "yearsBetween"
  /\ ret.val.pc = "return"
  /\ arg.start = NewDate(MakeDay(2023, 7, 1), 0)
  /\ arg.end = NewDate(MakeDay(2024, 6, 31), 0)
  /\ ret.val.value = 0

\* C28: daysBetween is symmetric: daysBetween(a, b) = daysBetween(b, a) for
\* all instants a and b, also when they are a non-whole number of days apart.
C28_DaysBetweenIsSymmetric ==
  (ret.op = "daysBetween" /\ ret.val.pc = "return") =>
    ret.val.value = daysBetween(arg.end, arg.start)

AddMonthsReturned == ret.op = "addMonths" /\ ret.val.pc = "return"

\* the month count from year 0 of a date
MonthCount(date) == 12 * getFullYear(date) + getMonth(date)

Midnight(day) == NewDate(day, 0)

DayPredicateReturned ==
  ret.op \in {"isInPast", "isInFuture", "isToday"} /\ ret.val.pc = "return"

\* C30: at a fixed clock instant exactly one of isInPast(date), isToday(date)
\* and isInFuture(date) is true: isInPast exactly for dates before today's
\* midnight, isInFuture exactly for dates at or after tomorrow's midnight,
\* isToday exactly for dates from today's midnight up to but excluding
\* tomorrow's midnight.
C30_PastTodayFuturePartition ==
  DayPredicateReturned =>
    LET past   == IF ret.op = "isInPast" THEN ret.val.value
                  ELSE isInPast(arg.date, arg.now)
        future == IF ret.op = "isInFuture" THEN ret.val.value
                  ELSE isInFuture(arg.date, arg.now)
        same   == IF ret.op = "isToday" THEN ret.val.value
                  ELSE isToday(arg.date, arg.now)
    IN  /\ Cardinality({p \in {"past", "today", "future"} :
                          \/ p = "past" /\ past
                          \/ p = "today" /\ same
                          \/ p = "future" /\ future}) = 1
        /\ past <=> DateLt(arg.date, Midnight(arg.now.day))
        /\ future <=> ~DateLt(arg.date, Midnight(arg.now.day + 1))
        /\ same <=> /\ ~DateLt(arg.date, Midnight(arg.now.day))
                    /\ DateLt(arg.date, Midnight(arg.now.day + 1))

C30_Witness ==
  /\ ret.op = "isInFuture"
  /\ ret.val.pc = "return"
  /\ arg.now = NewDate(MakeDay(2024, 1, 29), 1)
  /\ arg.date = NewDate(MakeDay(2024, 1, 29), HalfDay)
  /\ ret.val.value = FALSE

====
